---- MODULE Spec2Model ----
(***************************************************************************)
(* Composite-order managers of the Binance futures bot: the OCO manager    *)
(* (src/oco.py), the Grid manager (src/grid.py) and the TWAP manager       *)
(* (src/twap.py).  Each manager owns a registry of records, a foreground   *)
(* API (place, cancel, cleanup) and one background monitor thread per      *)
(* record.  The exchange client (src/binance_client.py) is the Gateway:    *)
(* every call either returns a payload or None, it never raises            *)
(* (_make_request catches every exception).                                *)
(*                                                                         *)
(* The three managers share no state (each has its own registry and its    *)
(* own threads, the client is stateless), so a run exercises one of them,  *)
(* chosen in Init by `manager`.                                            *)
(*                                                                         *)
(* Threads interleave between statements: a step of the model is one       *)
(* Gateway round trip or one write to a shared record, together with the   *)
(* thread-local evaluation around it.                                      *)
(***************************************************************************)
EXTENDS Integers, Sequences, FiniteSets, TLC

\* ---------------------------------------------------------------- bounds
MaxOco == 1         \* place_oco_order calls in a run
MaxTime == 1        \* readings of time.time() the clock can advance to
MaxFgCancel == 1    \* cancel_oco_order calls in a run that get as far as the Gateway
MaxTwap == 1        \* identifiers place_twap_order reads from the clock in a run
MaxTwapSameMs == 1  \* place_twap_order calls in the same millisecond as the call before
MaxGrid == 1        \* place_grid_order calls in a run that store a record
MaxGridFills == 1   \* fills the Gateway reports once a grid has grid_count legs

OcoIx == 1..MaxOco
Times == 0..MaxTime
NoTime == -1        \* the record has no 'completed_time' key

Legs == {"take_profit", "stop_loss"}

\* What get_order_status gives back through _check_order_status: None (a
\* failed request) or a dict whose 'status' is FILLED, CANCELED or something
\* else ("NEW" stands for every other value: NEW, PARTIALLY_FILLED, ...).
StatusReply == {"None", "NEW", "FILLED", "CANCELED"}

VARIABLES
    manager,              \* which Strategy Manager this run exercises
    now,                  \* the latest reading of time.time()
    \* ---- OCOOrderManager
    oco_calls,            \* number of place_oco_order calls so far
    oco_legs,             \* per call: what became of tp_order and sl_order
    oco_order,            \* the record objects, by identifier
    active_oco_orders,    \* keys of self.active_oco_orders
    oco_monitoring,       \* keys of self.monitoring_threads
    oco_mon,              \* per record: its monitor thread (pc and locals)
    oco_fg,               \* the foreground caller inside cancel_oco_order
    oco_gw,               \* per record: cancel_order calls sent, by caller and leg
    \* ---- TWAPOrderManager
    twap_calls,           \* number of place_twap_order calls that stored a record
    twap_order,           \* the record objects, in creation order
    active_twap_orders,   \* self.active_twap_orders: identifier -> record object
    twap_mon,             \* per record object: its execute_twap thread
    twap_fg,              \* the foreground caller inside cancel_twap_order
    \* ---- GridOrderManager
    grid_calls,           \* number of place_grid_order calls that stored a record
    grid_order,           \* the record objects, by identifier
    active_grid_orders,   \* keys of self.active_grid_orders
    grid_mon,             \* per record: its monitor_grid thread
    grid_fg,              \* the foreground caller inside cancel_grid_order
    grid_gw               \* per record: place_order calls of _place_replacement_order

\* time.time() never goes back: a reading is any value from the latest on.
Clock == now..MaxTime

ocoVars == <<oco_calls, oco_legs, oco_order, active_oco_orders, oco_monitoring,
             oco_mon, oco_fg, oco_gw>>
twapVars == <<twap_calls, twap_order, active_twap_orders, twap_mon, twap_fg>>
gridVars == <<grid_calls, grid_order, active_grid_orders, grid_mon, grid_fg, grid_gw>>
vars == <<manager, now, ocoVars, twapVars, gridVars>>

\* ------------------------------------------------------------ OCO: data
NoRecord == [status |-> "none", created_time |-> NoTime, completed_time |-> NoTime]
NoLegs == [take_profit |-> "none", stop_loss |-> "none"]
NoMon == [pc |-> "none", tp_status |-> "unset", sl_status |-> "unset", rule |-> "none"]
FgIdle == [pc |-> "idle", oco_id |-> 0, tp_cancelled |-> FALSE,
           sl_cancelled |-> FALSE, ret |-> "none", entry |-> "none", gw |-> <<>>,
           listed |-> {}]
NoCalls == [place_tp |-> 0, mon_tp |-> 0, mon_sl |-> 0, mon_failed |-> 0,
            fg_tp |-> 0, fg_sl |-> 0]

OcoInit ==
    /\ oco_calls = 0
    /\ oco_legs = [k \in OcoIx |-> NoLegs]
    /\ oco_order = [k \in OcoIx |-> NoRecord]
    /\ active_oco_orders = {}
    /\ oco_monitoring = {}
    /\ oco_mon = [k \in OcoIx |-> NoMon]
    /\ oco_fg = FgIdle
    /\ oco_gw = [k \in OcoIx |-> NoCalls]

\* Number of cancel_order calls the Gateway received for a leg of record k.
CancelCalls(k, leg) ==
    IF leg = "take_profit"
    THEN oco_gw[k].place_tp + oco_gw[k].mon_tp + oco_gw[k].fg_tp
    ELSE oco_gw[k].mon_sl + oco_gw[k].fg_sl

\* ------------------------------------------------- OCO: place_oco_order
\* oco_id = "OCO_<ms clock>" is read first and every call then makes at least
\* one Gateway round trip, so the identifiers of successive calls of the one
\* foreground thread differ: the k-th call gets identifier k.
\* The legs live nowhere but in the call's locals until the record is stored,
\* so the call is one step; tp_ok and sl_ok are the Gateway's two answers.
PlaceOcoOutcome(tp_ok, sl_ok) ==
    IF ~tp_ok THEN [take_profit |-> "failed", stop_loss |-> "none"]
    ELSE IF ~sl_ok THEN [take_profit |-> "placed", stop_loss |-> "failed"]
    ELSE [take_profit |-> "placed", stop_loss |-> "placed"]

\* Sensitivity variant for C7: a record is stored as soon as the take-profit
\* leg is placed.
PlaceOcoStores_TakeProfitOnly(legs) == legs.take_profit = "placed"

PlaceOcoStores(legs) == legs.take_profit = "placed" /\ legs.stop_loss = "placed"

PlaceOcoRollback(legs) ==
    IF legs.take_profit = "placed" /\ legs.stop_loss = "failed" THEN 1 ELSE 0

\* Sensitivity variant for C27: the entry leg is left open when the exit
\* pair could not be created.
BracketCalls_NoEntryCancel(entry, legs) ==
    IF entry = "none" THEN <<>>
    ELSE IF entry = "failed" THEN <<[op |-> "place_order", leg |-> "entry"]>>
    ELSE <<[op |-> "place_order", leg |-> "entry"],
           [op |-> "place_order", leg |-> "take_profit"]>>
         \o (IF legs.take_profit = "placed"
             THEN <<[op |-> "place_order", leg |-> "stop_loss"]>> ELSE <<>>)
         \o (IF legs.take_profit = "placed" /\ legs.stop_loss = "failed"
             THEN <<[op |-> "cancel_order", leg |-> "take_profit"]>> ELSE <<>>)

\* The Gateway calls of one place_bracket_oco_order call, in order: the entry
\* placement, then (entry placed) the calls of place_oco_order, then (no OCO
\* result) the cancel of the entry.  entry = "none": place_oco_order was
\* called directly and nothing is logged.
BracketCalls(entry, legs) ==
    IF entry = "none" THEN <<>>
    ELSE IF entry = "failed" THEN <<[op |-> "place_order", leg |-> "entry"]>>
    ELSE <<[op |-> "place_order", leg |-> "entry"],
           [op |-> "place_order", leg |-> "take_profit"]>>
         \o (IF legs.take_profit = "placed"
             THEN <<[op |-> "place_order", leg |-> "stop_loss"]>> ELSE <<>>)
         \o (IF legs.take_profit = "placed" /\ legs.stop_loss = "failed"
             THEN <<[op |-> "cancel_order", leg |-> "take_profit"]>> ELSE <<>>)
         \o (IF legs.take_profit = "placed" /\ legs.stop_loss = "placed"
             THEN <<>> ELSE <<[op |-> "cancel_order", leg |-> "entry"]>>)

\* The body of place_oco_order; entry tells whether place_bracket_oco_order
\* is the caller ("placed") or the user is ("none").
PlaceOco(entry, tp_ok, sl_ok, t) ==
    LET k == oco_calls + 1
        legs == PlaceOcoOutcome(tp_ok, sl_ok)
        fg == [FgIdle EXCEPT !.oco_id = k, !.entry = entry,
                             !.gw = BracketCalls(entry, legs)]
    IN  /\ manager = "oco"
        /\ oco_fg.pc = "idle"
        /\ oco_calls < MaxOco
        /\ oco_calls' = k
        /\ now' = IF PlaceOcoStores(legs) THEN t ELSE now
        /\ oco_legs' = [oco_legs EXCEPT ![k] = legs]
        /\ oco_gw' = [oco_gw EXCEPT ![k].place_tp = PlaceOcoRollback(legs)]
        /\ IF PlaceOcoStores(legs)
           THEN /\ oco_order' = [oco_order EXCEPT ![k] =
                        [status |-> "active", created_time |-> t,
                         completed_time |-> NoTime]]
                /\ active_oco_orders' = active_oco_orders \cup {k}
                /\ oco_mon' = [oco_mon EXCEPT ![k].pc = "loop"]
                /\ oco_monitoring' = oco_monitoring \cup {k}
                /\ oco_fg' = [fg EXCEPT !.ret = "placed"]
           ELSE /\ oco_fg' = [fg EXCEPT !.ret = "None"]
                /\ UNCHANGED <<oco_order, active_oco_orders, oco_mon, oco_monitoring>>
        /\ UNCHANGED <<twapVars, gridVars, manager>>

place_oco_order(tp_ok, sl_ok, t) == PlaceOco("none", tp_ok, sl_ok, t)

\* entry_order = self.client.place_order(...); if not entry_order: return None
\* oco_result = self.place_oco_order(...), at once; without a result the
\* entry is cancelled and None returned.
place_bracket_oco_order(entry_ok, tp_ok, sl_ok, t) ==
    IF entry_ok
    THEN PlaceOco("placed", tp_ok, sl_ok, t)
    ELSE /\ manager = "oco"
         /\ oco_fg.pc = "idle"
         /\ oco_calls < MaxOco
         /\ oco_fg' = [FgIdle EXCEPT !.ret = "None", !.entry = "failed",
                                     !.gw = BracketCalls("failed", NoLegs)]
         /\ UNCHANGED <<twapVars, gridVars, manager, now, oco_calls, oco_legs, oco_order,
                        active_oco_orders, oco_monitoring, oco_mon, oco_gw>>

\* ------------------------------------------------------ OCO: monitor_oco
\* Sensitivity variant for C1: the stop-loss rule tested first.
OcoRule_StopLossFirst(tp, sl) ==
    IF sl = "FILLED" THEN "completed_sl"
    ELSE IF tp = "FILLED" THEN "completed_tp"
    ELSE IF tp = "CANCELED" \/ sl = "CANCELED" THEN "cancelled"
    ELSE "none"

\* Sensitivity variant for C39: a leg reported CANCELED fires no rule.
OcoRule_FillsOnly(tp, sl) ==
    IF tp = "FILLED" THEN "completed_tp"
    ELSE IF sl = "FILLED" THEN "completed_sl"
    ELSE "none"

\* The if/elif chain of one poll cycle: which rule fires for the two replies.
OcoRule(tp, sl) ==
    IF tp = "FILLED" THEN "completed_tp"
    ELSE IF sl = "FILLED" THEN "completed_sl"
    ELSE IF tp = "CANCELED" \/ sl = "CANCELED" THEN "cancelled"
    ELSE "none"

\* Sensitivity variant for C37: the take-profit is cancelled whichever rule fired.
OcoRemaining_TakeProfit(tp, sl) == "take_profit"

\* Sensitivity variant for C3: the filled leg itself is handed to the cancel.
OcoRemaining_FilledLeg(tp, sl) ==
    IF tp = "FILLED" THEN "take_profit"
    ELSE IF sl = "FILLED" THEN "stop_loss"
    ELSE IF tp = "CANCELED" THEN "stop_loss"
    ELSE "take_profit"

\* The leg handed to _cancel_remaining_order by the rule that fired.
OcoRemaining(tp, sl) ==
    IF tp = "FILLED" THEN "stop_loss"
    ELSE IF sl = "FILLED" THEN "take_profit"
    ELSE IF tp = "CANCELED" THEN "stop_loss"
    ELSE "take_profit"

\* Sensitivity variant for C6: the loop test without the status check.
OcoLoopContinues_RegistryOnly(k) == k \in active_oco_orders

\* while oco_id in self.active_oco_orders: ... if status != 'active': break
OcoLoopContinues(k) ==
    k \in active_oco_orders /\ oco_order[k].status = "active"

\* Leaving the loop the thread removes itself from self.monitoring_threads,
\* which no other thread reads: the removal is part of the step that leaves.
MonLoop(k) ==
    /\ oco_mon[k].pc = "loop"
    /\ IF OcoLoopContinues(k)
       THEN /\ oco_mon' = [oco_mon EXCEPT ![k].pc = "query_tp"]
            /\ UNCHANGED oco_monitoring
       ELSE /\ oco_mon' = [oco_mon EXCEPT ![k].pc = "done"]
            /\ oco_monitoring' = oco_monitoring \ {k}
    /\ UNCHANGED <<twapVars, gridVars, manager, now, oco_calls, oco_legs, oco_order, active_oco_orders,
                   oco_fg, oco_gw>>

MonQueryTp(k) ==
    /\ oco_mon[k].pc = "query_tp"
    /\ \E r \in StatusReply :
          oco_mon' = [oco_mon EXCEPT ![k].pc = "query_sl", ![k].tp_status = r]
    /\ UNCHANGED <<twapVars, gridVars, manager, now, oco_calls, oco_legs, oco_order, active_oco_orders,
                   oco_monitoring, oco_fg, oco_gw>>

MonQuerySl(k) ==
    /\ oco_mon[k].pc = "query_sl"
    /\ \E r \in StatusReply :
          oco_mon' = [oco_mon EXCEPT ![k].pc = "evaluate", ![k].sl_status = r]
    /\ UNCHANGED <<twapVars, gridVars, manager, now, oco_calls, oco_legs, oco_order, active_oco_orders,
                   oco_monitoring, oco_fg, oco_gw>>

\* The rule is evaluated; when one fires, _cancel_remaining_order sends the
\* cancel (its result is only logged); when none fires the thread sleeps and
\* comes back to the loop test, where tp_status and sl_status are dead.
MonEvaluate(k) ==
    LET tp == oco_mon[k].tp_status
        sl == oco_mon[k].sl_status
    IN  /\ oco_mon[k].pc = "evaluate"
        /\ IF OcoRule(tp, sl) = "none"
           THEN /\ oco_mon' = [oco_mon EXCEPT ![k] = [NoMon EXCEPT !.pc = "loop"]]
                /\ UNCHANGED oco_gw
           ELSE /\ oco_mon' = [oco_mon EXCEPT ![k].pc = "set_status"]
                /\ oco_gw' = IF OcoRemaining(tp, sl) = "stop_loss"
                             THEN [oco_gw EXCEPT ![k].mon_sl = @ + 1]
                             ELSE [oco_gw EXCEPT ![k].mon_tp = @ + 1]
        /\ UNCHANGED <<twapVars, gridVars, manager, now, oco_calls, oco_legs, oco_order,
                       active_oco_orders, oco_monitoring, oco_fg>>

\* _cancel_remaining_order returns: the Gateway's answer ok is logged and
\* dropped (a failed cancel is counted in mon_failed), then
\* oco_order['status'] = ... in the branch taken; from here on the thread
\* carries only that branch (rule): the two replies are not read again.
MonSetStatus(k) ==
    LET rule == OcoRule(oco_mon[k].tp_status, oco_mon[k].sl_status)
    IN  /\ oco_mon[k].pc = "set_status"
        /\ oco_order' = [oco_order EXCEPT ![k].status = rule]
        /\ oco_mon' = [oco_mon EXCEPT ![k] =
                          [NoMon EXCEPT !.pc = "set_time", !.rule = rule]]
        /\ \E ok \in BOOLEAN :
              oco_gw' = IF ok THEN oco_gw
                        ELSE [oco_gw EXCEPT ![k].mon_failed = @ + 1]
        /\ UNCHANGED <<twapVars, gridVars, manager, now, oco_calls, oco_legs, active_oco_orders,
                       oco_monitoring, oco_fg>>

\* Sensitivity variant for C30: the thread polls again after the terminal
\* transition.
MonBreak_PollAgain(mon) == [mon EXCEPT !.pc = "query_tp"]

\* break: the thread leaves the while loop.
MonBreak(mon) == [mon EXCEPT !.pc = "done"]

MonSetTime(k, t) ==
    /\ oco_mon[k].pc = "set_time"
    /\ now' = t
    /\ oco_order' = [oco_order EXCEPT ![k].completed_time = t]
    /\ oco_mon' = [oco_mon EXCEPT ![k] = MonBreak(@)]
    /\ oco_monitoring' = oco_monitoring \ {k}
    /\ UNCHANGED <<twapVars, gridVars, manager, oco_calls, oco_legs, active_oco_orders, oco_fg, oco_gw>>

\* ---------------------------------------------------- OCO: cancel_oco_order
\* Sensitivity variant for C8: the status of the record is not looked at.
CancelOcoAdmits_AnyStatus(id) == id \in active_oco_orders

\* if oco_id not in self.active_oco_orders: return False
\* if oco_order['status'] != 'active': return False
CancelOcoAdmits(id) ==
    id \in active_oco_orders /\ oco_order[id].status = "active"

\* The status never returns to 'active', so a call that finds the record not
\* admitted changes nothing; the others are counted against MaxFgCancel.
RECURSIVE FgCancelsUpTo(_)
FgCancelsUpTo(k) == IF k = 0 THEN 0 ELSE oco_gw[k].fg_tp + FgCancelsUpTo(k - 1)

CancelOcoCall(id) ==
    /\ manager = "oco"
    /\ oco_fg.pc = "idle"
    /\ FgCancelsUpTo(MaxOco) < MaxFgCancel \/ ~CancelOcoAdmits(id)
    /\ oco_fg' = IF CancelOcoAdmits(id)
                 THEN [FgIdle EXCEPT !.pc = "cancel_tp", !.oco_id = id]
                 ELSE [FgIdle EXCEPT !.oco_id = id, !.ret = "False"]
    /\ UNCHANGED <<twapVars, gridVars, manager, now, oco_calls, oco_legs, oco_order, active_oco_orders,
                   oco_monitoring, oco_mon, oco_gw>>

CancelOcoTp ==
    /\ oco_fg.pc = "cancel_tp"
    /\ \E ok \in BOOLEAN :
          oco_fg' = [oco_fg EXCEPT !.pc = "cancel_sl", !.tp_cancelled = ok]
    /\ oco_gw' = [oco_gw EXCEPT ![oco_fg.oco_id].fg_tp = @ + 1]
    /\ UNCHANGED <<twapVars, gridVars, manager, now, oco_calls, oco_legs, oco_order, active_oco_orders,
                   oco_monitoring, oco_mon>>

\* Sensitivity variant for C9: both cancels required.
CancelOcoSucceeds_Both(tp_cancelled, sl_cancelled) == tp_cancelled /\ sl_cancelled

\* if tp_cancelled or sl_cancelled: ... else: return False
CancelOcoSucceeds(tp_cancelled, sl_cancelled) == tp_cancelled \/ sl_cancelled

CancelOcoSl ==
    /\ oco_fg.pc = "cancel_sl"
    /\ \E ok \in BOOLEAN :
          oco_fg' = IF CancelOcoSucceeds(oco_fg.tp_cancelled, ok)
                    THEN [oco_fg EXCEPT !.pc = "set_status", !.sl_cancelled = ok]
                    ELSE [FgIdle EXCEPT !.oco_id = oco_fg.oco_id, !.ret = "False"]
    /\ oco_gw' = [oco_gw EXCEPT ![oco_fg.oco_id].fg_sl = @ + 1]
    /\ UNCHANGED <<twapVars, gridVars, manager, now, oco_calls, oco_legs, oco_order, active_oco_orders,
                   oco_monitoring, oco_mon>>

CancelOcoSetStatus ==
    /\ oco_fg.pc = "set_status"
    /\ oco_order' = [oco_order EXCEPT ![oco_fg.oco_id].status = "cancelled"]
    /\ oco_fg' = [oco_fg EXCEPT !.pc = "set_time"]
    /\ UNCHANGED <<twapVars, gridVars, manager, now, oco_calls, oco_legs, active_oco_orders,
                   oco_monitoring, oco_mon, oco_gw>>

CancelOcoSetTime(t) ==
    /\ oco_fg.pc = "set_time"
    /\ now' = t
    /\ oco_order' = [oco_order EXCEPT ![oco_fg.oco_id].completed_time = t]
    /\ oco_fg' = [FgIdle EXCEPT !.oco_id = oco_fg.oco_id, !.ret = "True"]
    /\ UNCHANGED <<twapVars, gridVars, manager, oco_calls, oco_legs, active_oco_orders,
                   oco_monitoring, oco_mon, oco_gw>>

\* ------------------------------------------- OCO: cleanup_completed_orders
\* Sensitivity variant for C17: eviction by age alone, without the status test.
OcoEvicted_AgeOnly(max_age, current_time) ==
    {k \in active_oco_orders :
        current_time - (IF oco_order[k].completed_time # NoTime
                  THEN oco_order[k].completed_time
                  ELSE oco_order[k].created_time) > max_age}

\* max_age is max_age_hours * 3600 on the clock's scale.
OcoEvicted(max_age, current_time) ==
    {k \in active_oco_orders :
        /\ oco_order[k].status # "active"
        /\ current_time - (IF oco_order[k].completed_time # NoTime
                  THEN oco_order[k].completed_time
                  ELSE oco_order[k].created_time) > max_age}

\* ------------------- OCO: get_oco_order_status and list_active_oco_orders
\* Sensitivity variant for C29: the legs are queried whatever the identifier.
OcoStatusCalls_Unchecked(id) ==
    <<[op |-> "get_order_status", leg |-> "take_profit"],
      [op |-> "get_order_status", leg |-> "stop_loss"]>>

\* if oco_id not in self.active_oco_orders: return None; else the two
\* _check_order_status queries.
OcoStatusCalls(id) ==
    IF id \in active_oco_orders
    THEN <<[op |-> "get_order_status", leg |-> "take_profit"],
           [op |-> "get_order_status", leg |-> "stop_loss"]>>
    ELSE <<>>

\* The record's status is read into the result after the two queries.
get_oco_order_status(id) ==
    /\ manager = "oco"
    /\ oco_fg.pc = "idle"
    /\ oco_fg' = IF id \in active_oco_orders
                 THEN [FgIdle EXCEPT !.pc = "status", !.oco_id = id,
                                     !.gw = OcoStatusCalls(id)]
                 ELSE [FgIdle EXCEPT !.oco_id = id, !.ret = "None",
                                     !.gw = OcoStatusCalls(id)]
    /\ UNCHANGED <<twapVars, gridVars, manager, now, oco_calls, oco_legs, oco_order,
                   active_oco_orders, oco_monitoring, oco_mon, oco_gw>>

\* The next record after i, in the registry's order, that passes
\* if oco_order['status'] == 'active'; 0 when there is none.
OcoNextListed(i) ==
    LET rest == {k \in active_oco_orders : k > i /\ oco_order[k].status = "active"}
    IN  IF rest = {} THEN 0 ELSE CHOOSE k \in rest : \A j \in rest : k <= j

list_active_oco_orders ==
    LET n == OcoNextListed(0)
    IN  /\ manager = "oco"
        /\ oco_fg.pc = "idle"
        /\ oco_fg' = IF n = 0
                     THEN [FgIdle EXCEPT !.ret = "list"]
                     ELSE [FgIdle EXCEPT !.pc = "list_status", !.oco_id = n,
                                         !.gw = OcoStatusCalls(n)]
        /\ UNCHANGED <<twapVars, gridVars, manager, now, oco_calls, oco_legs, oco_order,
                       active_oco_orders, oco_monitoring, oco_mon, oco_gw>>

\* The two queries have returned: the result is built from the record as it
\* is now; get_oco_order_status returns it, list_active_oco_orders appends
\* it and goes on with the next record.
OcoStatusReturn ==
    LET id == oco_fg.oco_id
        info == [oco_id |-> id, status |-> oco_order[id].status]
        n == OcoNextListed(id)
    IN  /\ oco_fg.pc \in {"status", "list_status"}
        /\ oco_fg' =
              IF oco_fg.pc = "status"
              THEN [oco_fg EXCEPT !.pc = "idle", !.ret = "status", !.listed = {info}]
              ELSE IF n = 0
              THEN [oco_fg EXCEPT !.pc = "idle", !.ret = "list",
                                  !.listed = @ \cup {info}]
              ELSE [oco_fg EXCEPT !.oco_id = n, !.listed = @ \cup {info},
                                  !.gw = @ \o OcoStatusCalls(n)]
        /\ UNCHANGED <<twapVars, gridVars, manager, now, oco_calls, oco_legs, oco_order,
                       active_oco_orders, oco_monitoring, oco_mon, oco_gw>>

cleanup_completed_orders(max_age, t) ==
    /\ manager = "oco"
    /\ oco_fg.pc = "idle"
    /\ now' = t
    /\ active_oco_orders' = active_oco_orders \ OcoEvicted(max_age, t)
    /\ oco_fg' = [FgIdle EXCEPT !.ret = "cleanup"]
    /\ UNCHANGED <<twapVars, gridVars, manager, oco_calls, oco_legs, oco_order, oco_monitoring,
                   oco_mon, oco_gw>>

OcoNext ==
    \/ \E tp_ok, sl_ok \in BOOLEAN, t \in Clock : place_oco_order(tp_ok, sl_ok, t)
    \/ \E entry_ok, tp_ok, sl_ok \in BOOLEAN, t \in Clock :
          place_bracket_oco_order(entry_ok, tp_ok, sl_ok, t)
    \/ \E k \in OcoIx : MonLoop(k)
    \/ \E k \in OcoIx : MonQueryTp(k)
    \/ \E k \in OcoIx : MonQuerySl(k)
    \/ \E k \in OcoIx : MonEvaluate(k)
    \/ \E k \in OcoIx : MonSetStatus(k)
    \/ \E k \in OcoIx, t \in Clock : MonSetTime(k, t)
    \/ \E id \in OcoIx : CancelOcoCall(id)
    \/ CancelOcoTp
    \/ CancelOcoSl
    \/ CancelOcoSetStatus
    \/ \E t \in Clock : CancelOcoSetTime(t)
    \/ \E max_age \in 0..MaxTime, t \in Clock : cleanup_completed_orders(max_age, t)

\* The operations that read the registry.
OcoQueries ==
    \/ \E id \in OcoIx : get_oco_order_status(id)
    \/ list_active_oco_orders
    \/ OcoStatusReturn

\* ============================================================== floats
\* Quantities and prices are Python floats (IEEE-754 binary64).  A value is
\* kept exactly, as a sign and a magnitude counted in units of 2^-FracBits;
\* the magnitude is a number of three limbs <<a2, a1, a0>> in base LimbBase,
\* most significant first.  Every operation computes the exact result and
\* rounds it to MantissaBits significant bits, ties to even, as the hardware
\* does.  The inputs used below are far from overflow and underflow, and
\* every rounded result is a multiple of the unit.
LimbBase == 16777216
FracBits == 60
MantissaBits == 53

RECURSIVE Pow2(_)
Pow2(n) == IF n = 0 THEN 1 ELSE 2 * Pow2(n - 1)

RECURSIVE BitLenSmall(_)
BitLenSmall(v) == IF v = 0 THEN 0 ELSE 1 + BitLenSmall(v \div 2)

BigZero == <<0, 0, 0>>

BigLen(x) ==
    IF x[1] > 0 THEN 48 + BitLenSmall(x[1])
    ELSE IF x[2] > 0 THEN 24 + BitLenSmall(x[2])
    ELSE BitLenSmall(x[3])

BigLess(x, y) ==
    \/ x[1] < y[1]
    \/ x[1] = y[1] /\ x[2] < y[2]
    \/ x[1] = y[1] /\ x[2] = y[2] /\ x[3] < y[3]

BigAdd(x, y) ==
    LET s0 == x[3] + y[3]
        s1 == x[2] + y[2] + (s0 \div LimbBase)
    IN  <<x[1] + y[1] + (s1 \div LimbBase), s1 % LimbBase, s0 % LimbBase>>

\* x - y for y <= x
BigSub(x, y) ==
    LET b0 == IF x[3] < y[3] THEN 1 ELSE 0
        d0 == x[3] - y[3] + b0 * LimbBase
        b1 == IF x[2] - b0 < y[2] THEN 1 ELSE 0
        d1 == x[2] - b0 - y[2] + b1 * LimbBase
    IN  <<x[1] - b1 - y[1], d1, d0>>

\* x * n for a small natural n
BigMulSmall(x, n) ==
    LET p0 == x[3] * n
        p1 == x[2] * n + (p0 \div LimbBase)
    IN  <<x[1] * n + (p1 \div LimbBase), p1 % LimbBase, p0 % LimbBase>>

\* quotient and remainder of x by a small natural n > 0
BigDivSmall(x, n) ==
    LET t1 == (x[1] % n) * LimbBase + x[2]
        t0 == (t1 % n) * LimbBase + x[3]
    IN  [q |-> <<x[1] \div n, t1 \div n, t0 \div n>>, r |-> t0 % n]

\* Round to nearest, ties to even, at MantissaBits significant bits; sticky
\* tells that the exact value lies above x by less than one unit.
RoundNearestEven(x, sticky) ==
    LET d == BigLen(x) - MantissaBits
    IN  IF d <= 0 THEN x
        ELSE LET low == x[3] % Pow2(d)
                 half == Pow2(d - 1)
                 odd == (x[3] \div Pow2(d)) % 2 = 1
                 up == low > half \/ (low = half /\ (sticky \/ odd))
                 trunc == <<x[1], x[2], x[3] - low>>
             IN  IF up THEN BigAdd(trunc, <<0, 0, Pow2(d)>>) ELSE trunc

FloatZero == [neg |-> FALSE, mag |-> BigZero]

\* float(v) for a small natural v
FloatOfInt(v) == [neg |-> FALSE, mag |-> <<v * Pow2(FracBits - 48), 0, 0>>]

FloatNormal(neg, mag) == [neg |-> neg /\ mag # BigZero, mag |-> mag]

FloatNeg(x) == FloatNormal(~x.neg, x.mag)

\* x + y
FloatAdd(x, y) ==
    IF x.neg = y.neg
    THEN FloatNormal(x.neg, RoundNearestEven(BigAdd(x.mag, y.mag), FALSE))
    ELSE IF BigLess(x.mag, y.mag)
         THEN FloatNormal(y.neg, RoundNearestEven(BigSub(y.mag, x.mag), FALSE))
         ELSE FloatNormal(x.neg, RoundNearestEven(BigSub(x.mag, y.mag), FALSE))

\* x - y
FloatSub(x, y) == FloatAdd(x, FloatNeg(y))

\* x * n for a small natural n
FloatMulInt(x, n) ==
    FloatNormal(x.neg, RoundNearestEven(BigMulSmall(x.mag, n), FALSE))

\* x / n for a small natural n > 0: the quotient is taken with one bit more
\* than the unit so that the bit below the last kept one is always there.
FloatDivInt(x, n) ==
    LET d == BigDivSmall(BigMulSmall(x.mag, 2), n)
    IN  FloatNormal(x.neg, BigDivSmall(RoundNearestEven(d.q, d.r # 0), 2).q)

\* x < y
FloatLess(x, y) ==
    IF x.neg /\ ~y.neg THEN TRUE
    ELSE IF ~x.neg /\ y.neg THEN FALSE
    ELSE IF x.neg THEN BigLess(y.mag, x.mag)
    ELSE BigLess(x.mag, y.mag)

\* ================================================================= TWAP
TwapIx == 1..(MaxTwap + MaxTwapSameMs)
TwapDurations == {0, 3, 5, 7}      \* duration_minutes
TwapIntervals == {0, 60}           \* interval_seconds
TwapQuantities == {29, 100}        \* total_quantity
TwapSameMsDurations == {0}         \* duration_minutes of the orders of TwapSameMsSpec

Max(a, b) == IF a >= b THEN a ELSE b

\* max(1, duration_minutes * 60 // interval_seconds), interval_seconds > 0
TotalIntervals(duration_minutes, interval_seconds) ==
    Max(1, (duration_minutes * 60) \div interval_seconds)

\* chunk_quantity = total_quantity / total_intervals
ChunkQuantity(total_quantity, total_intervals) ==
    FloatDivInt(FloatOfInt(total_quantity), total_intervals)

\* total_quantity, chunk_quantity and remaining_quantity are floats.
NoTwap == [twap_id |-> 0, status |-> "none", total_quantity |-> FloatZero,
           duration_minutes |-> 0, interval_seconds |-> 0,
           chunk_quantity |-> FloatZero, remaining_quantity |-> FloatZero,
           created_time |-> NoTime, completed_time |-> NoTime]
\* i counts the slices whose market order has returned; failed tells that the
\* loop was left by the break that follows a failed slice.
NoTwapMon == [pc |-> "none", twap_order |-> 0, i |-> 0, failed |-> FALSE]
TwapFgIdle == [pc |-> "idle", twap_order |-> 0, ret |-> "none", listed |-> {}]

TwapInit ==
    /\ twap_calls = 0
    /\ twap_order = [m \in TwapIx |-> NoTwap]
    /\ active_twap_orders = <<>>
    /\ twap_mon = [m \in TwapIx |-> NoTwapMon]
    /\ twap_fg = TwapFgIdle

\* twap_id = "TWAP_<ms clock>": the call makes no Gateway round trip, so the
\* next call may read the same millisecond (same identifier) or a later one.
TwapIdAt(same_ms) ==
    IF twap_calls = 0 THEN 1
    ELSE IF same_ms THEN twap_order[twap_calls].twap_id
    ELSE twap_order[twap_calls].twap_id + 1

\* Identifiers read from the clock so far (they are 1, 2, ...).
TwapIds == IF twap_calls = 0 THEN 0 ELSE twap_order[twap_calls].twap_id

\* A call can read the millisecond of the call before it only while no Gateway
\* round trip has completed since: a round trip takes longer than that.
TwapMayCall(same_ms) ==
    IF same_ms /\ twap_calls > 0
    THEN /\ twap_calls - TwapIds < MaxTwapSameMs
         /\ \A m \in 1..twap_calls : twap_mon[m].i = 0
    ELSE TwapIds < MaxTwap

\* interval_seconds = 0 raises ZeroDivisionError at the first line: the call
\* logs it and returns None, nothing is stored.
place_twap_order(total_quantity, duration_minutes, interval_seconds, same_ms, t) ==
    LET m == twap_calls + 1
        id == TwapIdAt(same_ms)
    IN  /\ manager = "twap"
        /\ twap_fg.pc = "idle"
        /\ TwapMayCall(same_ms)
        /\ IF interval_seconds = 0
           THEN /\ twap_fg' = [TwapFgIdle EXCEPT !.ret = "None"]
                /\ UNCHANGED <<now, twap_calls, twap_order, active_twap_orders, twap_mon>>
           ELSE /\ twap_calls' = m
                /\ now' = t
                /\ twap_order' = [twap_order EXCEPT ![m] =
                      [twap_id |-> id, status |-> "active",
                       total_quantity |-> FloatOfInt(total_quantity),
                       duration_minutes |-> duration_minutes,
                       interval_seconds |-> interval_seconds,
                       chunk_quantity |-> ChunkQuantity(total_quantity,
                           TotalIntervals(duration_minutes, interval_seconds)),
                       remaining_quantity |-> FloatOfInt(total_quantity),
                       created_time |-> t, completed_time |-> NoTime]]
                /\ active_twap_orders' =
                      [x \in DOMAIN active_twap_orders \cup {id} |->
                          IF x = id THEN m ELSE active_twap_orders[x]]
                /\ twap_mon' = [twap_mon EXCEPT ![m].pc = "start"]
                /\ twap_fg' = [TwapFgIdle EXCEPT !.ret = "placed"]
        /\ UNCHANGED <<manager, ocoVars, gridVars>>

\* ------------------------------------------------------- TWAP: execute_twap
\* Market orders thread m has sent so far.
TwapPlaced(m) == twap_mon[m].i + (IF twap_mon[m].pc = "chunk" THEN 1 ELSE 0)

\* Slices of record object o that were executed successfully, by whichever
\* thread: every returned market order but the failed one.
RECURSIVE TwapExecutedUpTo(_, _)
TwapExecutedUpTo(o, m) ==
    IF m = 0 THEN 0
    ELSE TwapExecutedUpTo(o, m - 1) +
         (IF twap_mon[m].twap_order = o
          THEN twap_mon[m].i - (IF twap_mon[m].failed THEN 1 ELSE 0)
          ELSE 0)
TwapExecuted(o) == TwapExecutedUpTo(o, MaxTwap + MaxTwapSameMs)

\* twap_order = self.active_twap_orders[twap_id]: the object registered under
\* the thread's identifier when the thread first runs (KeyError ends it).
TwapStart(m) ==
    LET id == twap_order[m].twap_id
    IN  /\ twap_mon[m].pc = "start"
        /\ twap_mon' = [twap_mon EXCEPT ![m] =
              IF id \in DOMAIN active_twap_orders
              THEN [NoTwapMon EXCEPT !.pc = "loop",
                                     !.twap_order = active_twap_orders[id]]
              ELSE [NoTwapMon EXCEPT !.pc = "done"]]
        /\ UNCHANGED <<manager, now, ocoVars, gridVars, twap_calls, twap_order,
                       active_twap_orders, twap_fg>>

\* Sensitivity variant for C12: the loop without its status test.
TwapSliceStarts_CountOnly(m) ==
    LET r == twap_order[twap_mon[m].twap_order]
    IN  twap_mon[m].i < TotalIntervals(r.duration_minutes, r.interval_seconds)

\* Sensitivity variant for C38: the loop runs one slice past total_intervals.
TwapSliceStarts_OneMore(m) ==
    LET r == twap_order[twap_mon[m].twap_order]
    IN  /\ twap_mon[m].i <= TotalIntervals(r.duration_minutes, r.interval_seconds)
        /\ r.status = "active"

\* for _ in range(total_intervals): if twap_order['status'] != 'active': break
TwapSliceStarts(m) ==
    LET r == twap_order[twap_mon[m].twap_order]
    IN  /\ twap_mon[m].i < TotalIntervals(r.duration_minutes, r.interval_seconds)
        /\ r.status = "active"

\* Top of the loop: either the next slice's market order is sent, or the
\* loop is left (exhausted, or broken by the status test).
TwapLoop(m) ==
    /\ twap_mon[m].pc = "loop"
    /\ IF TwapSliceStarts(m)
       THEN twap_mon' = [twap_mon EXCEPT ![m].pc = "chunk"]
       ELSE twap_mon' = [twap_mon EXCEPT ![m].pc = "finish"]
    /\ UNCHANGED <<manager, now, ocoVars, gridVars, twap_calls, twap_order,
                   active_twap_orders, twap_fg>>

\* Sensitivity variant for C10: a failed slice is counted and the loop goes on.
TwapChunkFailed_Continue(m, o) ==
    /\ UNCHANGED twap_order
    /\ twap_mon' = [twap_mon EXCEPT ![m].pc = "loop", ![m].i = @ + 1,
                                    ![m].failed = TRUE]

\* if not self._execute_twap_chunk(twap_order): status = 'failed'; break
TwapChunkFailed(m, o) ==
    /\ twap_order' = [twap_order EXCEPT ![o].status = "failed"]
    /\ twap_mon' = [twap_mon EXCEPT ![m].pc = "finish", ![m].i = @ + 1,
                                    ![m].failed = TRUE]

\* _execute_twap_chunk returns: on failure status = 'failed' and break, else
\* remaining_quantity -= chunk_quantity and sleep.
TwapChunk(m) ==
    LET o == twap_mon[m].twap_order
    IN  /\ twap_mon[m].pc = "chunk"
        /\ \E ok \in BOOLEAN :
              IF ok
              THEN /\ twap_order' = [twap_order EXCEPT ![o].remaining_quantity =
                                        FloatSub(@, twap_order[o].chunk_quantity)]
                   /\ twap_mon' = [twap_mon EXCEPT ![m].pc = "loop", ![m].i = @ + 1]
              ELSE TwapChunkFailed(m, o)
        /\ UNCHANGED <<manager, now, ocoVars, gridVars, twap_calls, active_twap_orders, twap_fg>>

\* After the loop, however it was left: twap_order['status'] = 'completed'
TwapFinish(m) ==
    /\ twap_mon[m].pc = "finish"
    /\ twap_order' = [twap_order EXCEPT ![twap_mon[m].twap_order].status = "completed"]
    /\ twap_mon' = [twap_mon EXCEPT ![m].pc = "set_time"]
    /\ UNCHANGED <<manager, now, ocoVars, gridVars, twap_calls, active_twap_orders,
                   twap_fg>>

TwapSetTime(m, t) ==
    /\ twap_mon[m].pc = "set_time"
    /\ now' = t
    /\ twap_order' = [twap_order EXCEPT ![twap_mon[m].twap_order].completed_time = t]
    /\ twap_mon' = [twap_mon EXCEPT ![m].pc = "remove"]
    /\ UNCHANGED <<manager, ocoVars, gridVars, twap_calls, active_twap_orders, twap_fg>>

\* if twap_id in self.active_twap_orders: del self.active_twap_orders[twap_id]
TwapRemove(m) ==
    LET id == twap_order[m].twap_id
    IN  /\ twap_mon[m].pc = "remove"
        /\ active_twap_orders' =
              [x \in DOMAIN active_twap_orders \ {id} |-> active_twap_orders[x]]
        /\ twap_mon' = [twap_mon EXCEPT ![m].pc = "done"]
        /\ UNCHANGED <<manager, now, ocoVars, gridVars, twap_calls, twap_order, twap_fg>>

\* ------------------------------------------------- TWAP: cancel_twap_order
cancel_twap_order(id) ==
    /\ manager = "twap"
    /\ twap_fg.pc = "idle"
    /\ IF id \in DOMAIN active_twap_orders
       THEN /\ twap_order' = [twap_order EXCEPT ![active_twap_orders[id]].status =
                                 "cancelled"]
            /\ twap_fg' = [TwapFgIdle EXCEPT !.pc = "set_time",
                                             !.twap_order = active_twap_orders[id]]
       ELSE /\ twap_fg' = [TwapFgIdle EXCEPT !.ret = "False"]
            /\ UNCHANGED twap_order
    /\ UNCHANGED <<manager, now, ocoVars, gridVars, twap_calls, active_twap_orders,
                   twap_mon>>

CancelTwapSetTime(t) ==
    /\ twap_fg.pc = "set_time"
    /\ now' = t
    /\ twap_order' = [twap_order EXCEPT ![twap_fg.twap_order].completed_time = t]
    /\ twap_fg' = [TwapFgIdle EXCEPT !.ret = "True"]
    /\ UNCHANGED <<manager, ocoVars, gridVars, twap_calls, active_twap_orders, twap_mon>>

\* ----------- TWAP: get_twap_order_status and list_active_twap_orders
\* return self.active_twap_orders.get(twap_id, None)
get_twap_order_status(id) ==
    /\ manager = "twap"
    /\ twap_fg.pc = "idle"
    /\ twap_fg' = IF id \in DOMAIN active_twap_orders
                  THEN [TwapFgIdle EXCEPT !.twap_order = active_twap_orders[id],
                                          !.ret = "status"]
                  ELSE [TwapFgIdle EXCEPT !.ret = "None"]
    /\ UNCHANGED <<manager, now, ocoVars, gridVars, twap_calls, twap_order,
                   active_twap_orders, twap_mon>>

\* return list(self.active_twap_orders.values())
list_active_twap_orders ==
    /\ manager = "twap"
    /\ twap_fg.pc = "idle"
    /\ twap_fg' = [TwapFgIdle EXCEPT !.ret = "list", !.listed =
                      {active_twap_orders[id] : id \in DOMAIN active_twap_orders}]
    /\ UNCHANGED <<manager, now, ocoVars, gridVars, twap_calls, twap_order,
                   active_twap_orders, twap_mon>>

\* ------------------------------------- TWAP: cleanup_completed_twap_orders
TwapEvicted(max_age, current_time) ==
    {id \in DOMAIN active_twap_orders :
        LET r == twap_order[active_twap_orders[id]]
        IN  /\ r.status # "active"
            /\ current_time - (IF r.completed_time # NoTime THEN r.completed_time
                               ELSE r.created_time) > max_age}

cleanup_completed_twap_orders(max_age, t) ==
    /\ manager = "twap"
    /\ twap_fg.pc = "idle"
    /\ now' = t
    /\ twap_fg' = [TwapFgIdle EXCEPT !.ret = "cleanup"]
    /\ active_twap_orders' =
          [x \in DOMAIN active_twap_orders \ TwapEvicted(max_age, t) |->
              active_twap_orders[x]]
    /\ UNCHANGED <<manager, ocoVars, gridVars, twap_calls, twap_order, twap_mon>>

\* Every call reads a millisecond of its own.
TwapCreate ==
    \E q \in TwapQuantities, d \in TwapDurations, i \in TwapIntervals, t \in Clock :
       place_twap_order(q, d, i, FALSE, t)

\* Short orders; a call may read the millisecond of the call before it.
TwapCreateSameMs ==
    \E q \in TwapQuantities, d \in TwapSameMsDurations, i \in TwapIntervals,
       same_ms \in BOOLEAN, t \in Clock : place_twap_order(q, d, i, same_ms, t)

TwapSteps ==
    \/ \E m \in TwapIx : TwapStart(m)
    \/ \E m \in TwapIx : TwapLoop(m)
    \/ \E m \in TwapIx : TwapChunk(m)
    \/ \E m \in TwapIx : TwapFinish(m)
    \/ \E m \in TwapIx, t \in Clock : TwapSetTime(m, t)
    \/ \E m \in TwapIx : TwapRemove(m)
    \/ \E id \in TwapIx : cancel_twap_order(id)
    \/ \E t \in Clock : CancelTwapSetTime(t)
    \/ \E max_age \in 0..MaxTime, t \in Clock : cleanup_completed_twap_orders(max_age, t)

TwapNext == TwapCreate \/ TwapSteps

TwapQueries ==
    \/ \E id \in TwapIx : get_twap_order_status(id)
    \/ list_active_twap_orders
TwapSameMsNext == TwapCreateSameMs \/ TwapSteps

\* ================================================================= Grid
GridIx == 1..MaxGrid
GridCounts == {1, 2, 3}                 \* grid_count
GridQuantities == {1}                   \* total_quantity
\* The doubles written 0.3 and 0.9 in Python.
Float03 == [neg |-> FALSE, mag |-> <<1228, 13421772, 13421760>>]
Float09 == [neg |-> FALSE, mag |-> <<3686, 6710886, 6710912>>]
\* <<price_range_min, price_range_max>>
GridRanges == {<<FloatOfInt(1), FloatOfInt(2)>>, <<FloatOfInt(2), FloatOfInt(2)>>,
               <<Float03, Float09>>}

\* Prices and quantities are Python floats.
NoGrid == [status |-> "none", grid_count |-> 0, price_range_min |-> FloatZero,
           price_range_max |-> FloatZero, price_step |-> FloatZero, orders |-> <<>>,
           created_time |-> NoTime, completed_time |-> NoTime]
NoGridMon == [pc |-> "none", i |-> 0]
\* gw: the place_order calls sent by the last place_grid_order, in order.
\* pending: during cancel_grid_order, the legs that were 'active' when the call
\* was made and for which no cancel_order has been sent yet.
\* refused: a cancel_order of the last cancel_grid_order call was refused
\* (history, kept only by GridCancelReplyTracked).
GridFgIdle == [pc |-> "idle", grid_id |-> 0, i |-> 0, ret |-> "none", gw |-> <<>>,
               pending |-> {}, listed |-> {}, refused |-> FALSE]

GridInit ==
    /\ grid_calls = 0
    /\ grid_order = [k \in GridIx |-> NoGrid]
    /\ active_grid_orders = {}
    /\ grid_mon = [k \in GridIx |-> NoGridMon]
    /\ grid_fg = GridFgIdle
    /\ grid_gw = [k \in GridIx |-> <<>>]

\* price_step = (price_range_max - price_range_min) / (grid_count - 1)
GridPriceStep(c, lo, hi) == FloatDivInt(FloatSub(hi, lo), c - 1)

\* quantity_per_level = total_quantity / grid_count
GridQuantityPerLevel(q, c) == FloatDivInt(FloatOfInt(q), c)

\* price = price_range_min + (i * price_step), for level i = 0 .. grid_count - 1
GridLevelPrice(i, c, lo, hi) == FloatAdd(lo, FloatMulInt(GridPriceStep(c, lo, hi), i))

\* mid_price = (min + max) / 2; price < mid_price is a BUY, else a SELL
GridLevelSide(price, c, lo, hi) ==
    IF FloatLess(price, FloatDivInt(FloatAdd(lo, hi), 2)) THEN "BUY" ELSE "SELL"

\* Sensitivity variant for C22: all levels or none (a failed level drops the
\* levels already placed).
GridPlacedLevels_AllOrNone(n, c, lo, hi, q, oks) ==
    IF \A j \in 1..n : oks[j]
    THEN [j \in 1..n |->
            [side |-> GridLevelSide(GridLevelPrice(j - 1, c, lo, hi), c, lo, hi),
             price |-> GridLevelPrice(j - 1, c, lo, hi),
             quantity |-> GridQuantityPerLevel(q, c),
             status |-> "active"]]
    ELSE <<>>

\* The levels 0 .. n - 1 whose placement succeeded, in ascending order.
RECURSIVE GridPlacedLevels(_, _, _, _, _, _)
GridPlacedLevels(n, c, lo, hi, q, oks) ==
    IF n = 0 THEN <<>>
    ELSE LET rest == GridPlacedLevels(n - 1, c, lo, hi, q, oks)
             price == GridLevelPrice(n - 1, c, lo, hi)
         IN  IF oks[n]
             THEN Append(rest, [side |-> GridLevelSide(price, c, lo, hi),
                                price |-> price,
                                quantity |-> GridQuantityPerLevel(q, c),
                                status |-> "active"])
             ELSE rest

\* The place_order calls of levels 0 .. n - 1, in the order they are sent.
RECURSIVE GridPlaceCalls(_, _, _, _, _, _)
GridPlaceCalls(n, c, lo, hi, q, oks) ==
    IF n = 0 THEN <<>>
    ELSE LET price == GridLevelPrice(n - 1, c, lo, hi)
         IN  Append(GridPlaceCalls(n - 1, c, lo, hi, q, oks),
                    [op |-> "place_order", side |-> GridLevelSide(price, c, lo, hi),
                     price |-> price, quantity |-> GridQuantityPerLevel(q, c),
                     ok |-> oks[n]])

\* Sensitivity variant for C21: the range test left out.
GridInputValid_CountOnly(c, lo, hi) == c >= 2

\* if grid_count < 2: return None; if price_range_min >= price_range_max: ...
GridInputValid(c, lo, hi) == c >= 2 /\ FloatLess(lo, hi)

\* grid_id = "GRID_<ms clock>"; a call that stores a record has made at least
\* one Gateway round trip, so the next call reads a later identifier.
place_grid_order(c, lo, hi, q, oks, t) ==
    LET k == grid_calls + 1
        placed == GridPlacedLevels(c, c, lo, hi, q, oks)
    IN  /\ manager = "grid"
        /\ grid_fg.pc = "idle"
        /\ grid_calls < MaxGrid
        /\ IF GridInputValid(c, lo, hi) /\ placed # <<>>
           THEN /\ grid_calls' = k
                /\ now' = t
                /\ grid_order' = [grid_order EXCEPT ![k] =
                      [status |-> "active", grid_count |-> c,
                       price_range_min |-> lo, price_range_max |-> hi,
                       price_step |-> GridPriceStep(c, lo, hi), orders |-> placed,
                       created_time |-> t, completed_time |-> NoTime]]
                /\ active_grid_orders' = active_grid_orders \cup {k}
                /\ grid_mon' = [grid_mon EXCEPT ![k].pc = "loop"]
                /\ grid_fg' = [GridFgIdle EXCEPT !.grid_id = k, !.ret = "placed",
                                                !.gw = GridPlaceCalls(c, c, lo, hi, q, oks)]
           ELSE /\ grid_fg' = [GridFgIdle EXCEPT !.ret = "None",
                                  !.gw = IF GridInputValid(c, lo, hi)
                                         THEN GridPlaceCalls(c, c, lo, hi, q, oks)
                                         ELSE <<>>]
                /\ UNCHANGED <<now, grid_calls, grid_order, active_grid_orders, grid_mon>>
        /\ UNCHANGED <<manager, ocoVars, twapVars, grid_gw>>

\* ------------------------------------------------------ Grid: monitor_grid
\* The first leg at position from or later whose status is 'active'; 0 if none.
RECURSIVE NextActive(_, _)
NextActive(orders, from) ==
    IF from > Len(orders) THEN 0
    ELSE IF orders[from].status = "active" THEN from
    ELSE NextActive(orders, from + 1)

\* The Gateway may report a fill while the list is short of
\* grid_count + MaxGridFills legs (every fill can append one).
GridMayFill(k) ==
    Len(grid_order[k].orders) < grid_order[k].grid_count + MaxGridFills

\* while grid_id in self.active_grid_orders: ... if status != 'active': break
GridLoopContinues(k) ==
    k \in active_grid_orders /\ grid_order[k].status = "active"

\* The thread after it is done with position i of grid_order['orders'] (the
\* list as it is now, legs appended in this cycle included): it sends the
\* status query of the next active leg, or sleeps and returns to the loop test.
GridAdvance(orders, i) ==
    IF NextActive(orders, i + 1) = 0 THEN [pc |-> "loop", i |-> 0]
    ELSE [pc |-> "query", i |-> NextActive(orders, i + 1)]

GridLoop(k) ==
    /\ grid_mon[k].pc = "loop"
    /\ grid_mon' = [grid_mon EXCEPT ![k] =
          IF GridLoopContinues(k) THEN GridAdvance(grid_order[k].orders, 0)
          ELSE [pc |-> "done", i |-> 0]]
    /\ UNCHANGED <<manager, now, ocoVars, twapVars, grid_calls, grid_gw, grid_order,
                   active_grid_orders, grid_fg>>

\* _place_replacement_order: side and price of the leg that replaces `leg`.
GridReplacement(g, leg) ==
    IF leg.side = "BUY"
    THEN [side |-> "SELL", price |-> FloatAdd(leg.price, g.price_step),
          quantity |-> leg.quantity, status |-> "active"]
    ELSE [side |-> "BUY", price |-> FloatSub(leg.price, g.price_step),
          quantity |-> leg.quantity, status |-> "active"]

\* Sensitivity variant for C20: the replacement is sent whatever its price.
GridInRange_Always(g, price) == TRUE

\* if new_price < price_range_min or new_price > price_range_max: return
GridInRange(g, price) ==
    ~(FloatLess(price, g.price_range_min) \/ FloatLess(g.price_range_max, price))

\* Sensitivity variant for C32: a query without an answer counts as a fill.
GridFilled_NoAnswer(r) == r \in {"FILLED", "None"}

\* if order_status and order_status.get('status') == 'FILLED'
GridFilled(r) == r = "FILLED"

\* The status query of leg i returns r.  On FILLED the leg is marked filled and
\* the replacement is sent to the Gateway, unless its price is out of range.
GridReplyWith(k, r) ==
    LET g == grid_order[k]
        i == grid_mon[k].i
    IN  /\ grid_mon[k].pc = "query"
        /\ r = "FILLED" => GridMayFill(k)
        /\ IF GridFilled(r)
           THEN LET new_order == GridReplacement(g, g.orders[i])
                IN  /\ grid_order' =
                          [grid_order EXCEPT ![k].orders[i].status = "filled"]
                    /\ IF GridInRange(g, new_order.price)
                       THEN /\ grid_mon' = [grid_mon EXCEPT ![k] =
                                              [pc |-> "place", i |-> i]]
                            /\ grid_gw' = [grid_gw EXCEPT ![k] =
                                  Append(@, [leg |-> i, side |-> new_order.side,
                                             price |-> new_order.price,
                                             quantity |-> new_order.quantity])]
                       ELSE /\ grid_mon' = [grid_mon EXCEPT ![k] =
                                              GridAdvance(grid_order'[k].orders, i)]
                            /\ UNCHANGED grid_gw
           ELSE /\ grid_mon' = [grid_mon EXCEPT ![k] = GridAdvance(g.orders, i)]
                /\ UNCHANGED <<grid_order, grid_gw>>
        /\ UNCHANGED <<manager, now, ocoVars, twapVars, grid_calls,
                       active_grid_orders, grid_fg>>

GridReply(k) == \E r \in StatusReply : GridReplyWith(k, r)

\* Sensitivity variant for C33: the new leg takes the place of the filled one.
GridWithReplacement_InPlace(orders, i, sent) ==
    [orders EXCEPT ![i] = [side |-> sent.side, price |-> sent.price,
                           quantity |-> sent.quantity, status |-> "active"]]

\* grid_order['orders'].append(new_order)
GridWithReplacement(orders, i, sent) ==
    Append(orders, [side |-> sent.side, price |-> sent.price,
                    quantity |-> sent.quantity, status |-> "active"])

\* Sensitivity variant for C34: the leg is added whatever place_order returned.
GridPlacementResult_Unchecked(orders, i, sent, ok) ==
    GridWithReplacement(orders, i, sent)

\* if order_result: ...append(new_order)  else: only logged
GridPlacementResult(orders, i, sent, ok) ==
    IF ok THEN GridWithReplacement(orders, i, sent) ELSE orders

\* place_order for the replacement returns ok: the new leg, with the side,
\* price and quantity of the call, is appended on success.
GridPlacedWith(k, ok) ==
    LET i == grid_mon[k].i
        sent == grid_gw[k][Len(grid_gw[k])]
    IN  /\ grid_mon[k].pc = "place"
        /\ grid_order' = [grid_order EXCEPT ![k].orders =
                             GridPlacementResult(@, i, sent, ok)]
        /\ grid_mon' = [grid_mon EXCEPT ![k] = GridAdvance(grid_order'[k].orders, i)]
        /\ UNCHANGED <<manager, now, ocoVars, twapVars, grid_calls, grid_gw,
                       active_grid_orders, grid_fg>>

GridPlaced(k) == \E ok \in BOOLEAN : GridPlacedWith(k, ok)

\* ------------------------------------------------ Grid: cancel_grid_order
\* Sensitivity variant for C23: a cancel_order for every leg, whatever its status.
GridCancelAdvance_EveryLeg(id, orders, i, pending) ==
    IF i + 1 > Len(orders)
    THEN [GridFgIdle EXCEPT !.pc = "set_status", !.grid_id = id, !.pending = pending]
    ELSE [GridFgIdle EXCEPT !.pc = "cancel", !.grid_id = id, !.i = i + 1,
                            !.pending = pending \ {i + 1}]

\* The foreground after position i of the list: it sends the cancel of the
\* next active leg, or goes on to write the grid's status.
GridCancelAdvance(id, orders, i, pending) ==
    IF NextActive(orders, i + 1) = 0
    THEN [GridFgIdle EXCEPT !.pc = "set_status", !.grid_id = id, !.pending = pending]
    ELSE [GridFgIdle EXCEPT !.pc = "cancel", !.grid_id = id,
                            !.i = NextActive(orders, i + 1),
                            !.pending = pending \ {NextActive(orders, i + 1)}]

cancel_grid_order(id) ==
    /\ manager = "grid"
    /\ grid_fg.pc = "idle"
    /\ grid_fg' = IF id \in active_grid_orders
                  THEN GridCancelAdvance(id, grid_order[id].orders, 0,
                          {j \in 1..Len(grid_order[id].orders) :
                              grid_order[id].orders[j].status = "active"})
                  ELSE [GridFgIdle EXCEPT !.grid_id = id, !.ret = "False"]
    /\ UNCHANGED <<manager, now, ocoVars, twapVars, grid_calls, grid_gw, grid_order,
                   active_grid_orders, grid_mon>>

\* cancel_order for leg i returns: if result: order['status'] = 'cancelled'
\* tracked: whether the history field refused is kept.
GridCancelReplyWith(tracked) ==
    LET id == grid_fg.grid_id
        i == grid_fg.i
    IN  /\ grid_fg.pc = "cancel"
        /\ \E ok \in BOOLEAN :
              /\ grid_order' = IF ok
                    THEN [grid_order EXCEPT ![id].orders[i].status = "cancelled"]
                    ELSE grid_order
              /\ grid_fg' = [GridCancelAdvance(id, grid_order'[id].orders, i,
                                               grid_fg.pending)
                                EXCEPT !.refused = tracked /\ (grid_fg.refused \/ ~ok)]
        /\ UNCHANGED <<manager, now, ocoVars, twapVars, grid_calls, grid_gw,
                       active_grid_orders, grid_mon>>

GridCancelReply == GridCancelReplyWith(FALSE)
GridCancelReplyTracked == GridCancelReplyWith(TRUE)

GridCancelSetStatus ==
    /\ grid_fg.pc = "set_status"
    /\ grid_order' = [grid_order EXCEPT ![grid_fg.grid_id].status = "cancelled"]
    /\ grid_fg' = [grid_fg EXCEPT !.pc = "set_time", !.pending = {}]
    /\ UNCHANGED <<manager, now, ocoVars, twapVars, grid_calls, grid_gw,
                   active_grid_orders, grid_mon>>

GridCancelSetTime(t) ==
    /\ grid_fg.pc = "set_time"
    /\ now' = t
    /\ grid_order' = [grid_order EXCEPT ![grid_fg.grid_id].completed_time = t]
    /\ grid_fg' = [GridFgIdle EXCEPT !.grid_id = grid_fg.grid_id, !.ret = "True",
                                     !.refused = grid_fg.refused]
    /\ UNCHANGED <<manager, ocoVars, twapVars, grid_calls, grid_gw, active_grid_orders, grid_mon>>

\* ------------------------------------- Grid: cleanup_completed_grid_orders
GridEvicted(max_age, current_time) ==
    {k \in active_grid_orders :
        /\ grid_order[k].status # "active"
        /\ current_time - (IF grid_order[k].completed_time # NoTime
                           THEN grid_order[k].completed_time
                           ELSE grid_order[k].created_time) > max_age}

cleanup_completed_grid_orders(max_age, t) ==
    /\ manager = "grid"
    /\ grid_fg.pc = "idle"
    /\ now' = t
    /\ active_grid_orders' = active_grid_orders \ GridEvicted(max_age, t)
    /\ grid_fg' = [GridFgIdle EXCEPT !.ret = "cleanup"]
    /\ UNCHANGED <<manager, ocoVars, twapVars, grid_calls, grid_gw, grid_order, grid_mon>>

\* ------------- Grid: get_grid_order_status and list_active_grid_orders
\* if grid_id not in self.active_grid_orders: return None; else the record's
\* fields and the counts of its legs are read, no Gateway call is made.
get_grid_order_status(id) ==
    /\ manager = "grid"
    /\ grid_fg.pc = "idle"
    /\ grid_fg' = IF id \in active_grid_orders
                  THEN [GridFgIdle EXCEPT !.grid_id = id, !.ret = "status"]
                  ELSE [GridFgIdle EXCEPT !.grid_id = id, !.ret = "None"]
    /\ UNCHANGED <<manager, now, ocoVars, twapVars, grid_calls, grid_gw, grid_order,
                   active_grid_orders, grid_mon>>

\* for grid_id, grid_order in ...items(): if grid_order['status'] == 'active':
\* the status result of the record is appended.
list_active_grid_orders ==
    /\ manager = "grid"
    /\ grid_fg.pc = "idle"
    /\ grid_fg' = [GridFgIdle EXCEPT !.ret = "list", !.listed =
                      {k \in active_grid_orders : grid_order[k].status = "active"}]
    /\ UNCHANGED <<manager, now, ocoVars, twapVars, grid_calls, grid_gw, grid_order,
                   active_grid_orders, grid_mon>>

GridSteps ==
    \/ \E c \in GridCounts, r \in GridRanges, q \in GridQuantities, t \in Clock :
          \E oks \in [1..c -> BOOLEAN] : place_grid_order(c, r[1], r[2], q, oks, t)
    \/ \E k \in GridIx : GridLoop(k)
    \/ \E k \in GridIx : GridReply(k)
    \/ \E k \in GridIx : GridPlaced(k)
    \/ \E id \in GridIx : cancel_grid_order(id)
    \/ GridCancelSetStatus
    \/ \E t \in Clock : GridCancelSetTime(t)
    \/ \E max_age \in 0..MaxTime, t \in Clock : cleanup_completed_grid_orders(max_age, t)

GridNext == GridSteps \/ GridCancelReply
GridTrackedNext == GridSteps \/ GridCancelReplyTracked

GridQueries ==
    \/ \E id \in GridIx : get_grid_order_status(id)
    \/ list_active_grid_orders

Init ==
    /\ manager \in {"oco", "twap", "grid"}
    /\ now = 0
    /\ OcoInit
    /\ TwapInit
    /\ GridInit

Next == OcoNext \/ TwapNext \/ GridNext

Spec == Init /\ [][Next]_vars

\* One manager at a time.
OcoOnly == Init /\ manager = "oco"
TwapOnly == Init /\ manager = "twap"
GridOnly == Init /\ manager = "grid"
OcoSpec == OcoOnly /\ [][OcoNext]_vars
TwapSpec == TwapOnly /\ [][TwapNext]_vars
TwapSameMsSpec == TwapOnly /\ [][TwapSameMsNext]_vars
GridSpec == GridOnly /\ [][GridNext]_vars
\* The Grid manager with the history of refused cancels kept.
GridTrackedSpec == GridOnly /\ [][GridTrackedNext]_vars

\* The three managers with the operations that read the registry.
QueryNext == Next \/ OcoQueries \/ TwapQueries \/ GridQueries
QuerySpec == Init /\ [][QueryNext]_vars

\* Every monitor is a thread of its own and every Gateway call returns: a
\* monitor that can take a step eventually takes one.
OcoMonitor(k) ==
    \/ MonLoop(k) \/ MonQueryTp(k) \/ MonQuerySl(k) \/ MonEvaluate(k)
    \/ MonSetStatus(k) \/ \E t \in Clock : MonSetTime(k, t)
TwapMonitor(m) ==
    \/ TwapStart(m) \/ TwapLoop(m) \/ TwapChunk(m) \/ TwapFinish(m)
    \/ (\E t \in Clock : TwapSetTime(m, t)) \/ TwapRemove(m)
GridMonitor(k) == GridLoop(k) \/ GridReply(k) \/ GridPlaced(k)

FairSpec ==
    /\ Spec
    /\ \A k \in OcoIx : WF_vars(OcoMonitor(k))
    /\ \A m \in TwapIx : WF_vars(TwapMonitor(m))
    /\ \A k \in GridIx : WF_vars(GridMonitor(k))

\* The OCO manager with every monitor thread scheduled fairly.
FairOcoSpec == OcoSpec /\ \A k \in OcoIx : WF_vars(OcoMonitor(k))

\* The TWAP manager with every execution thread scheduled fairly.
FairTwapSpec == TwapSpec /\ \A m \in TwapIx : WF_vars(TwapMonitor(m))

\* ================================================================ claims
Terminal == {"completed_tp", "completed_sl", "cancelled"}

\* The foreground never got past the entry checks of cancel_oco_order(k).
NoForegroundCancel(k) ==
    /\ oco_gw[k].fg_tp = 0
    /\ oco_gw[k].fg_sl = 0
    /\ ~(oco_fg.oco_id = k /\ oco_fg.pc \in {"cancel_tp", "cancel_sl", "set_status", "set_time"})

\* C1: in a poll cycle of the OCO monitor the outcome follows the first rule
\* that matches, in the order take-profit FILLED (also when the stop-loss leg
\* is FILLED too), stop-loss FILLED, either leg CANCELED; the monitor then
\* writes that status; when no rule matches the monitor leaves the status as
\* it is and goes back to polling.
C1_Expected(tp, sl) ==
    CASE tp = "FILLED" -> "completed_tp"
      [] tp # "FILLED" /\ sl = "FILLED" -> "completed_sl"
      [] tp # "FILLED" /\ sl # "FILLED" /\ "CANCELED" \in {tp, sl} -> "cancelled"
      [] OTHER -> "active"

C1_RulePriority ==
    [][\A k \in OcoIx :
          LET want == C1_Expected(oco_mon[k].tp_status, oco_mon[k].sl_status)
          IN  /\ (oco_mon[k].pc = "evaluate" /\ oco_mon'[k].pc # "evaluate") =>
                    /\ (want = "active") <=> (oco_mon'[k].pc = "loop")
                    /\ (want # "active") <=> (oco_mon'[k].pc = "set_status")
                    /\ oco_order'[k].status = oco_order[k].status
              /\ (oco_mon[k].pc = "set_status" /\ oco_mon'[k].pc # "set_status") =>
                    /\ oco_order'[k].status = want
                    /\ oco_mon'[k].pc = "set_time"
              /\ (oco_mon[k].pc = "set_time" /\ oco_mon'[k].pc # "set_time") =>
                    /\ oco_order'[k].status = oco_order[k].status
                    /\ oco_mon'[k].pc = "done"]_vars

\* Both legs were reported FILLED in one cycle and the take-profit branch was
\* taken: the cancel went to the stop-loss leg.
C1_Witness ==
    \E k \in OcoIx :
        /\ oco_mon[k].pc = "set_status"
        /\ oco_mon[k].tp_status = "FILLED"
        /\ oco_mon[k].sl_status = "FILLED"
        /\ oco_gw[k].mon_sl = 1
        /\ oco_gw[k].mon_tp = 0

\* C2: each leg of an OCO composite receives at most one cancel_order call,
\* under every interleaving of the monitor and foreground cancels.
C2_AtMostOneCancelPerLeg ==
    \A k \in OcoIx : \A leg \in Legs : CancelCalls(k, leg) <= 1

\* C3: with no foreground cancel, a monitor that saw the take-profit leg
\* FILLED has sent exactly one cancel, to the stop-loss leg, none to the
\* take-profit leg, and the status ends as completed_tp.
C3_TakeProfitFill ==
    \A k \in OcoIx :
        (oco_mon[k].rule = "completed_tp" /\ NoForegroundCancel(k)) =>
            /\ CancelCalls(k, "stop_loss") = 1
            /\ oco_gw[k].mon_sl = 1
            /\ CancelCalls(k, "take_profit") = 0
            /\ oco_order[k].status = "completed_tp"

C3_Witness ==
    \E k \in OcoIx :
        /\ oco_mon[k].pc = "done"
        /\ oco_mon[k].rule = "completed_tp"
        /\ NoForegroundCancel(k)
        /\ oco_order[k].completed_time # NoTime

\* C4: once the status of a composite has left 'active' it is never written
\* again, and completed_time, once set, is never overwritten.
C4_TerminalWrittenOnce ==
    [][\A k \in OcoIx :
          /\ oco_order[k].status \in Terminal =>
                oco_order'[k].status = oco_order[k].status
          /\ oco_order[k].completed_time # NoTime =>
                oco_order'[k].completed_time = oco_order[k].completed_time]_vars

\* C5: a monitor sends its corrective Gateway call only while the status of
\* its composite is 'active'.
C5_CorrectiveOnlyWhileActive ==
    [][/\ \A k \in OcoIx :
            (oco_gw'[k].mon_tp + oco_gw'[k].mon_sl > oco_gw[k].mon_tp + oco_gw[k].mon_sl)
                => oco_order[k].status = "active"
       /\ \A k \in GridIx :
            (grid_mon[k].pc # "place" /\ grid_mon'[k].pc = "place")
                => grid_order[k].status = "active"]_vars

C7_AllOrNothing ==
    \A k \in OcoIx :
        /\ oco_legs[k].take_profit = "failed" =>
              /\ oco_legs[k].stop_loss = "none"
              /\ CancelCalls(k, "take_profit") = 0
        /\ oco_legs[k].stop_loss = "failed" =>
              /\ oco_legs[k].take_profit = "placed"
              /\ CancelCalls(k, "take_profit") = 1
        /\ "failed" \in {oco_legs[k].take_profit, oco_legs[k].stop_loss} =>
              /\ oco_order[k] = NoRecord
              /\ k \notin active_oco_orders
              /\ k \notin oco_monitoring
              /\ oco_mon[k].pc = "none"
              /\ CancelCalls(k, "stop_loss") = 0
        /\ (k \in active_oco_orders \/ oco_order[k] # NoRecord \/ oco_mon[k].pc # "none") =>
              /\ oco_legs[k].take_profit = "placed"
              /\ oco_legs[k].stop_loss = "placed"

C7_Witness ==
    \E k \in OcoIx :
        /\ oco_legs[k].take_profit = "placed"
        /\ oco_legs[k].stop_loss = "failed"
        /\ oco_gw[k].place_tp = 1
        /\ oco_fg.ret = "None"

\* C8: cancel_oco_order on a record whose status is not 'active' returns
\* False, sends nothing to the Gateway and leaves the record as it is.
C8_CancelNotActive ==
    [][\A id \in OcoIx :
          (/\ oco_fg.pc = "idle"
           /\ oco_fg' # oco_fg
           /\ oco_fg'.oco_id = id
           /\ oco_fg'.pc = "cancel_tp" \/ (oco_fg'.pc = "idle" /\ oco_fg'.ret = "False")
           /\ id \in active_oco_orders
           /\ oco_order[id].status # "active")
          => /\ oco_fg'.pc = "idle"
             /\ oco_fg'.ret = "False"
             /\ oco_gw' = oco_gw
             /\ oco_order' = oco_order
             /\ active_oco_orders' = active_oco_orders]_vars

\* A second cancel after one that succeeded: refused, the Gateway saw only
\* the first call's two cancels.
C8_Witness ==
    \E id \in OcoIx :
        /\ oco_fg.pc = "idle" /\ oco_fg.oco_id = id /\ oco_fg.ret = "False"
        /\ id \in active_oco_orders
        /\ oco_order[id].status = "cancelled"
        /\ oco_gw[id].fg_tp = 1 /\ oco_gw[id].fg_sl = 1
        /\ oco_gw[id].mon_tp = 0 /\ oco_gw[id].mon_sl = 0

\* C9: cancel_oco_order on an active record sends a cancel for each leg, the
\* second whatever the first returned; it writes status 'cancelled' and
\* returns True exactly when one of the two succeeded; when both failed it
\* returns False and writes neither status nor completed_time.
C9_CancelBestEffort ==
    [][LET id == oco_fg.oco_id
       IN  /\ (oco_fg.pc = "cancel_tp" /\ oco_fg'.pc # "cancel_tp") =>
                 /\ oco_fg'.pc = "cancel_sl"
                 /\ oco_gw'[id].fg_tp = oco_gw[id].fg_tp + 1
                 /\ oco_order' = oco_order
           /\ (oco_fg.pc = "cancel_sl" /\ oco_fg'.pc # "cancel_sl") =>
                 /\ oco_gw'[id].fg_sl = oco_gw[id].fg_sl + 1
                 /\ oco_order' = oco_order
                 /\ (oco_fg.tp_cancelled \/ oco_fg'.sl_cancelled)
                        <=> (oco_fg'.pc = "set_status")
                 /\ oco_fg'.pc # "set_status" =>
                        (oco_fg'.pc = "idle" /\ oco_fg'.ret = "False")
           /\ (oco_fg.pc = "set_status" /\ oco_fg'.pc # "set_status") =>
                 /\ oco_order'[id].status = "cancelled"
                 /\ oco_fg'.pc = "set_time"
           /\ (oco_fg.pc = "set_time" /\ oco_fg'.pc # "set_time") =>
                 /\ oco_order'[id].completed_time = now'
                 /\ oco_fg'.pc = "idle" /\ oco_fg'.ret = "True"]_vars

\* The take-profit cancel failed, the stop-loss cancel was still sent and
\* succeeded: the call goes on to write 'cancelled'.
C9_Witness ==
    /\ oco_fg.pc = "set_status"
    /\ ~oco_fg.tp_cancelled
    /\ oco_fg.sl_cancelled
    /\ oco_gw[oco_fg.oco_id].fg_tp = 1
    /\ oco_gw[oco_fg.oco_id].fg_sl = 1

\* C10: once a slice's market order has failed, the TWAP monitor sends no
\* further place_order: the loop is left and never entered again.
C10_NoSliceAfterFailure ==
    [][\A m \in TwapIx :
          /\ twap_mon[m].failed => TwapPlaced(m)' = TwapPlaced(m)
          /\ twap_mon'[m].failed =>
                twap_mon'[m].pc \in {"finish", "set_time", "remove", "done"}]_vars

\* Five slices, the fourth failed: four orders were sent, the fifth never.
C10_Witness ==
    \E m \in TwapIx :
        /\ twap_mon[m].failed
        /\ twap_mon[m].pc = "done"
        /\ TwapPlaced(m) = 4
        /\ TotalIntervals(twap_order[m].duration_minutes,
                          twap_order[m].interval_seconds) = 5
\* The record object thread m works on, once it has looked it up.
TwapOf(m) == twap_order[twap_mon[m].twap_order]
TwapRunning(m) == twap_mon[m].twap_order \in TwapIx

\* C11: after a slice failed, the status is 'failed' when the TWAP thread
\* has finished (and from then on).
C11_FailedStaysFailed ==
    \A m \in TwapIx :
        (TwapRunning(m) /\ twap_mon[m].failed /\ twap_mon[m].pc = "done")
            => TwapOf(m).status = "failed"

\* C12: once cancel_twap_order has written 'cancelled', the TWAP thread lets
\* no further slice pass its status test: the only order that can still come
\* back is the one already in flight, and the status does not return to
\* 'active'.
C12_CancelStopsSlices ==
    [][\A m \in TwapIx :
          (TwapRunning(m) /\ TwapOf(m).status # "active") =>
              /\ TwapPlaced(m)' = TwapPlaced(m)
              /\ twap_mon'[m].pc = "chunk" => twap_mon[m].pc = "chunk"
              /\ twap_mon[m].pc = "chunk" => twap_mon'[m].pc \in {"chunk", "loop", "finish"}
              /\ twap_order'[twap_mon[m].twap_order].status # "active"]_vars

\* The thread left its loop on the status test: cancelled after some slices,
\* slices still to go, none failed.
C12_Witness ==
    \E m \in TwapIx :
        /\ TwapRunning(m)
        /\ twap_mon[m].pc = "finish"
        /\ TwapOf(m).status = "cancelled"
        /\ ~twap_mon[m].failed
        /\ twap_mon[m].i > 0
        /\ twap_mon[m].i < TotalIntervals(TwapOf(m).duration_minutes,
                                          TwapOf(m).interval_seconds)

\* C13: a record has status 'completed' only when all its slices were
\* executed successfully.
C13_CompletedOnlyAfterAllSlices ==
    \A m \in TwapIx :
        (TwapRunning(m) /\ TwapOf(m).status = "completed") =>
            /\ ~twap_mon[m].failed
            /\ twap_mon[m].i = TotalIntervals(TwapOf(m).duration_minutes,
                                              TwapOf(m).interval_seconds)

\* C14: remaining_quantity = total_quantity - k * chunk_quantity for the k
\* slices executed so far, it is never negative and k never exceeds the
\* number of slices.
C14_RemainingQuantity ==
    \A o \in TwapIx :
        twap_order[o].status # "none" =>
            /\ ~twap_order[o].remaining_quantity.neg
            /\ twap_order[o].remaining_quantity
                  = FloatSub(twap_order[o].total_quantity,
                             FloatMulInt(twap_order[o].chunk_quantity, TwapExecuted(o)))
            /\ TwapExecuted(o) <= TotalIntervals(twap_order[o].duration_minutes,
                                                 twap_order[o].interval_seconds)

\* C15: chunk_quantity = total_quantity / slice_count with slice_count =
\* max(1, duration div interval), so that slice_count * chunk_quantity =
\* total_quantity; the thread runs at most slice_count slices.
C15_SliceArithmetic ==
    \A o \in TwapIx :
        twap_order[o].status # "none" =>
            LET n == Max(1, (twap_order[o].duration_minutes * 60)
                                \div twap_order[o].interval_seconds)
            IN  /\ twap_order[o].chunk_quantity
                      = FloatDivInt(twap_order[o].total_quantity, n)
                /\ FloatMulInt(twap_order[o].chunk_quantity, n)
                      = twap_order[o].total_quantity
                /\ \A m \in TwapIx :
                      twap_mon[m].twap_order = o => twap_mon[m].i <= n

\* C16: a record leaves its manager's registry only in a cleanup step; no
\* monitor step and no cancel step removes it.
C16_RemovedOnlyByCleanup ==
    [][/\ \/ active_oco_orders \subseteq active_oco_orders'
          \/ \E max_age \in 0..MaxTime, t \in Clock : cleanup_completed_orders(max_age, t)
       /\ \/ DOMAIN active_twap_orders \subseteq DOMAIN active_twap_orders'
          \/ \E max_age \in 0..MaxTime, t \in Clock :
                 cleanup_completed_twap_orders(max_age, t)
       /\ \/ active_grid_orders \subseteq active_grid_orders'
          \/ \E max_age \in 0..MaxTime, t \in Clock :
                 cleanup_completed_grid_orders(max_age, t)]_vars

\* C17: a cleanup step, whatever its max_age and whatever the record's
\* created_time, keeps every registered record whose status is 'active'.
C17_ActiveNeverEvicted ==
    [][/\ \A max_age \in 0..MaxTime, t \in Clock :
            cleanup_completed_orders(max_age, t) =>
               \A k \in active_oco_orders :
                  oco_order[k].status = "active" => k \in active_oco_orders'
       /\ \A max_age \in 0..MaxTime, t \in Clock :
            cleanup_completed_twap_orders(max_age, t) =>
               \A id \in DOMAIN active_twap_orders :
                  twap_order[active_twap_orders[id]].status = "active"
                     => id \in DOMAIN active_twap_orders'
       /\ \A max_age \in 0..MaxTime, t \in Clock :
            cleanup_completed_grid_orders(max_age, t) =>
               \A k \in active_grid_orders :
                  grid_order[k].status = "active" => k \in active_grid_orders']_vars

\* A cleanup has just returned and left in the registry an ACTIVE record older
\* than the smallest retention window.
C17_Witness ==
    /\ oco_fg.pc = "idle" /\ oco_fg.ret = "cleanup"
    /\ \E k \in active_oco_orders :
          /\ oco_order[k].status = "active"
          /\ now - oco_order[k].created_time > 0

\* C18: a cleanup step at time t removes exactly the registered records whose
\* status is terminal and whose completed_time is set with t - completed_time
\* > max_age, and changes no record.
C18_CleanupRemovesExactly ==
    [][/\ \A max_age \in 0..MaxTime, t \in Clock :
            cleanup_completed_orders(max_age, t) =>
               /\ active_oco_orders' = active_oco_orders \
                     {k \in active_oco_orders :
                         /\ oco_order[k].status # "active"
                         /\ oco_order[k].completed_time # NoTime
                         /\ t - oco_order[k].completed_time > max_age}
               /\ oco_order' = oco_order
       /\ \A max_age \in 0..MaxTime, t \in Clock :
            cleanup_completed_twap_orders(max_age, t) =>
               /\ DOMAIN active_twap_orders' = DOMAIN active_twap_orders \
                     {id \in DOMAIN active_twap_orders :
                         LET r == twap_order[active_twap_orders[id]]
                         IN  /\ r.status # "active"
                             /\ r.completed_time # NoTime
                             /\ t - r.completed_time > max_age}
               /\ twap_order' = twap_order
       /\ \A max_age \in 0..MaxTime, t \in Clock :
            cleanup_completed_grid_orders(max_age, t) =>
               /\ active_grid_orders' = active_grid_orders \
                     {k \in active_grid_orders :
                         /\ grid_order[k].status # "active"
                         /\ grid_order[k].completed_time # NoTime
                         /\ t - grid_order[k].completed_time > max_age}
               /\ grid_order' = grid_order]_vars


\* C19: every leg of every grid record, initial or replacement, has
\* price_range_min <= price <= price_range_max, and the record's price_step is
\* (price_range_max - price_range_min) / (grid_count - 1).
C19_LegsInRange ==
    \A k \in GridIx :
        grid_order[k].status # "none" =>
            LET g == grid_order[k]
            IN  /\ \A j \in 1..Len(g.orders) :
                      /\ ~FloatLess(g.orders[j].price, g.price_range_min)
                      /\ ~FloatLess(g.price_range_max, g.orders[j].price)
                /\ g.price_step = FloatDivInt(FloatSub(g.price_range_max, g.price_range_min),
                                              g.grid_count - 1)

\* The replacement the specification asks for: opposite side, one price_step
\* above a BUY and one below a SELL, the filled leg's quantity.
C20_Expected(g, leg) ==
    [side |-> IF leg.side = "BUY" THEN "SELL" ELSE "BUY",
     price |-> IF leg.side = "BUY" THEN FloatAdd(leg.price, g.price_step)
               ELSE FloatAdd(leg.price, FloatNeg(g.price_step)),
     quantity |-> leg.quantity]
C20_Within(g, price) ==
    /\ ~FloatLess(price, g.price_range_min)
    /\ ~FloatLess(g.price_range_max, price)

\* C20: the step in which the monitor sees an ACTIVE leg FILLED marks the leg
\* filled and sends a replacement place_order exactly when the expected price
\* is within the range; every replacement place_order ever sent is the
\* expected one for its leg, within the range, and the only one for that leg;
\* the leg list grows only by the leg of the place_order that has returned.
C20_OneReplacementPerFill ==
    [][\A k \in GridIx :
          grid_order[k].status # "none" =>
             LET g == grid_order[k]
                 h == grid_order'[k]
                 calls == grid_gw'[k]
             IN  /\ \A j \in 1..Len(g.orders) :
                       (g.orders[j].status = "active" /\ h.orders[j].status # "active"
                           /\ grid_mon'[k] # grid_mon[k]) =>
                          /\ h.orders[j].status = "filled"
                          /\ Len(h.orders) = Len(g.orders)
                          /\ IF C20_Within(g, C20_Expected(g, g.orders[j]).price)
                             THEN /\ grid_mon'[k] = [pc |-> "place", i |-> j]
                                  /\ Len(calls) = Len(grid_gw[k]) + 1
                                  /\ calls[Len(calls)].leg = j
                             ELSE /\ grid_mon'[k].pc # "place"
                                  /\ calls = grid_gw[k]
                 /\ \A n \in 1..Len(calls) :
                       /\ [side |-> calls[n].side, price |-> calls[n].price,
                           quantity |-> calls[n].quantity]
                             = C20_Expected(h, h.orders[calls[n].leg])
                       /\ C20_Within(h, calls[n].price)
                       /\ \A m \in 1..Len(calls) : calls[m].leg = calls[n].leg => m = n
                 /\ Len(h.orders) # Len(g.orders) =>
                       /\ calls = grid_gw[k]
                       /\ grid_mon[k] = [pc |-> "place", i |-> calls[Len(calls)].leg]
                       /\ h.orders = Append(g.orders,
                             [side |-> calls[Len(calls)].side,
                              price |-> calls[Len(calls)].price,
                              quantity |-> calls[Len(calls)].quantity,
                              status |-> "active"])]_vars

\* A filled BUY leg got its replacement SELL placed, and another filled leg,
\* whose replacement price is out of range, got none.
C20_Witness ==
    \E k \in GridIx :
        LET g == grid_order[k]
        IN  /\ g.status # "none"
            /\ grid_mon[k].pc # "place"
            /\ \E n \in 1..Len(grid_gw[k]) : grid_gw[k][n].side = "SELL"
            /\ \E j \in 1..Len(g.orders) :
                  /\ g.orders[j].status = "filled"
                  /\ ~C20_Within(g, C20_Expected(g, g.orders[j]).price)
                  /\ \A n \in 1..Len(grid_gw[k]) : grid_gw[k][n].leg # j


\* C21: a place_grid_order call with grid_count < 2 or price_range_min >=
\* price_range_max returns None without a Gateway call, without a record in
\* the registry and without a monitor.
C21_InvalidGridRejected ==
    [][\A c \in GridCounts, r \in GridRanges, q \in GridQuantities, t \in Clock :
          \A oks \in [1..c -> BOOLEAN] :
             (place_grid_order(c, r[1], r[2], q, oks, t)
                 /\ (c < 2 \/ ~FloatLess(r[1], r[2]))) =>
                /\ grid_fg'.ret = "None"
                /\ grid_fg'.gw = <<>>
                /\ grid_gw' = grid_gw
                /\ grid_order' = grid_order
                /\ active_grid_orders' = active_grid_orders
                /\ grid_mon' = grid_mon]_vars

\* A place_grid_order call has returned None having sent nothing.
C21_Witness ==
    /\ grid_fg.pc = "idle"
    /\ grid_fg.ret = "None"
    /\ grid_fg.gw = <<>>
    /\ active_grid_orders = {}
    /\ \A k \in GridIx : grid_mon[k].pc = "none"


\* The legs of the place_order calls that succeeded, in the order of the calls.
RECURSIVE C22_Legs(_)
C22_Legs(calls) ==
    IF calls = <<>> THEN <<>>
    ELSE LET last == calls[Len(calls)]
             rest == C22_Legs(SubSeq(calls, 1, Len(calls) - 1))
         IN  IF last.ok
             THEN Append(rest, [side |-> last.side, price |-> last.price,
                                quantity |-> last.quantity, status |-> "active"])
             ELSE rest

\* C22: a place_grid_order call with valid input sends one place_order per
\* level, in ascending price order, and nothing else; it returns None, with no
\* record and no monitor, exactly when every placement failed; otherwise the
\* stored record's legs are exactly the levels whose placement succeeded, in
\* the same order, all 'active'.
C22_FailedLevelsOmitted ==
    [][\A c \in GridCounts, r \in GridRanges, q \in GridQuantities, t \in Clock :
          \A oks \in [1..c -> BOOLEAN] :
             (place_grid_order(c, r[1], r[2], q, oks, t)
                 /\ c >= 2 /\ FloatLess(r[1], r[2])) =>
                LET calls == grid_fg'.gw
                    k == grid_calls + 1
                IN  /\ Len(calls) = c
                    /\ \A n \in 1..c :
                          /\ calls[n].op = "place_order"
                          /\ calls[n].ok = oks[n]
                          /\ n < c => FloatLess(calls[n].price, calls[n + 1].price)
                    /\ grid_gw' = grid_gw
                    /\ IF \A n \in 1..c : ~oks[n]
                       THEN /\ grid_fg'.ret = "None"
                            /\ grid_order' = grid_order
                            /\ active_grid_orders' = active_grid_orders
                            /\ grid_mon' = grid_mon
                       ELSE /\ grid_fg'.ret = "placed"
                            /\ active_grid_orders' = active_grid_orders \cup {k}
                            /\ grid_order'[k].status = "active"
                            /\ grid_order'[k].orders = C22_Legs(calls)
                            /\ grid_mon'[k].pc = "loop"]_vars

\* A grid was stored although one of its levels could not be placed.
C22_Witness ==
    /\ grid_fg.pc = "idle"
    /\ grid_fg.ret = "placed"
    /\ \E n \in 1..Len(grid_fg.gw) : ~grid_fg.gw[n].ok
    /\ grid_fg.grid_id \in active_grid_orders
    /\ Len(grid_order[grid_fg.grid_id].orders) < grid_order[grid_fg.grid_id].grid_count
    /\ Len(grid_order[grid_fg.grid_id].orders) > 0


\* C23 as stated: when the loop of cancel_grid_order has ended, a cancel_order
\* has been sent for every leg that was 'active' when the call was made.
C23_EveryLegActiveAtCall ==
    grid_fg.pc = "set_status" => grid_fg.pending = {}

\* C23, amended: cancel_grid_order on a registered grid goes through the legs
\* in list order and sends one cancel_order for each leg that is 'active' when
\* the loop reaches it, none for a leg that is not; a leg becomes 'cancelled'
\* only in the step in which its own cancel_order returns; after the loop the
\* call sets status 'cancelled', then completed_time, and returns True,
\* whatever the cancels returned.
C23_CancelGridBestEffort ==
    [][/\ (grid_fg' # grid_fg /\ grid_fg.pc \in {"idle", "cancel"}
             /\ grid_fg'.pc \in {"cancel", "set_status"}) =>
            LET id == grid_fg'.grid_id
                from == IF grid_fg.pc = "cancel" THEN grid_fg.i ELSE 0
                upto == IF grid_fg'.pc = "cancel" THEN grid_fg'.i
                        ELSE Len(grid_order'[id].orders) + 1
            IN  /\ id \in active_grid_orders
                /\ grid_fg.pc = "cancel" => id = grid_fg.grid_id
                /\ from < upto
                /\ \A j \in (from + 1)..(upto - 1) :
                      grid_order'[id].orders[j].status # "active"
                /\ grid_fg'.pc = "cancel" =>
                      grid_order'[id].orders[upto].status = "active"
       /\ \A k \in GridIx : \A j \in 1..Len(grid_order[k].orders) :
            (grid_order[k].orders[j].status # "cancelled"
                /\ grid_order'[k].orders[j].status = "cancelled") =>
               (grid_fg.pc = "cancel" /\ grid_fg.grid_id = k /\ grid_fg.i = j
                   /\ grid_fg' # grid_fg)
       /\ (grid_fg.pc = "cancel" /\ grid_fg' # grid_fg) =>
            grid_fg'.pc \in {"cancel", "set_status"}
       /\ (grid_fg.pc = "set_status" /\ grid_fg' # grid_fg) =>
            /\ grid_fg'.pc = "set_time"
            /\ grid_order'[grid_fg.grid_id].status = "cancelled"
       /\ (grid_fg.pc = "set_time" /\ grid_fg' # grid_fg) =>
            /\ grid_fg'.pc = "idle" /\ grid_fg'.ret = "True"
            /\ grid_order'[grid_fg.grid_id].completed_time # NoTime
            /\ grid_order'[grid_fg.grid_id].completed_time = now']_vars

\* cancel_grid_order has returned True on a grid of which one leg was
\* cancelled and another one, whose cancel failed, is still 'active'.
C23_Witness ==
    /\ grid_fg.pc = "idle" /\ grid_fg.ret = "True"
    /\ grid_fg.grid_id \in GridIx
    /\ grid_mon[grid_fg.grid_id].pc = "loop"
    /\ LET g == grid_order[grid_fg.grid_id]
       IN  /\ g.status = "cancelled"
           /\ g.completed_time # NoTime
           /\ \E j \in 1..Len(g.orders) : g.orders[j].status = "cancelled"
           /\ \E j \in 1..Len(g.orders) : g.orders[j].status = "active"
           /\ Len(grid_gw[grid_fg.grid_id]) = 0


\* C24: two place_twap_order calls that both stored a record never got the
\* same identifier, so the registry holds one key per stored record and no two
\* execution threads were started for the same identifier.
C24_UniqueIdentifiers ==
    \A m1, m2 \in 1..twap_calls :
        m1 # m2 => twap_order[m1].twap_id # twap_order[m2].twap_id


\* C25: the execution thread started by the m-th place_twap_order call works
\* on the record that call created: no step of it changes another record.
C25_MonitorTouchesOwnRecordOnly ==
    [][\A m \in TwapIx :
          TwapMonitor(m) => \A o \in TwapIx \ {m} : twap_order'[o] = twap_order[o]]_vars


\* C26: when a corrective Gateway call of a monitor fails, the monitor makes
\* the call again on a later poll cycle: an OCO monitor that has left its
\* loop has sent more sibling cancels than the Gateway refused.
C26_FailedCancelRetried ==
    \A k \in OcoIx :
        (oco_mon[k].pc = "done" /\ oco_gw[k].mon_failed > 0)
            => oco_gw[k].mon_tp + oco_gw[k].mon_sl > oco_gw[k].mon_failed

\* C27: place_bracket_oco_order places the entry leg first; after a failed
\* entry it places no exit leg; after a placed entry its next Gateway call is
\* the take-profit placement (no status query on the entry, here or later);
\* when no OCO pair results it sends one cancel_order for the entry, as its
\* last call, and returns failure; when the pair results the entry is not
\* cancelled.
C27_Calls(op, leg) ==
    {n \in 1..Len(oco_fg.gw) : oco_fg.gw[n] = [op |-> op, leg |-> leg]}

C27_BracketOrder ==
    oco_fg.entry # "none" =>
        /\ C27_Calls("place_order", "entry") = {1}
        /\ \A n \in 1..Len(oco_fg.gw) : oco_fg.gw[n].op \in {"place_order", "cancel_order"}
        /\ oco_fg.entry = "failed" =>
              /\ Len(oco_fg.gw) = 1
              /\ oco_fg.ret = "None"
              /\ oco_fg.oco_id = 0
        /\ oco_fg.entry = "placed" =>
              /\ C27_Calls("place_order", "take_profit") = {2}
              /\ oco_fg.ret \in {"placed", "None"}
              /\ oco_fg.ret = "placed" <=> oco_fg.oco_id \in active_oco_orders
              /\ oco_fg.ret = "placed" =>
                    /\ C27_Calls("place_order", "stop_loss") = {3}
                    /\ Len(oco_fg.gw) = 3
              /\ oco_fg.ret = "None" =>
                    C27_Calls("cancel_order", "entry") = {Len(oco_fg.gw)}

\* A bracket call whose entry was placed and whose stop-loss was refused.
C27_Witness ==
    /\ oco_fg.entry = "placed"
    /\ oco_fg.ret = "None"
    /\ oco_legs[oco_fg.oco_id].stop_loss = "failed"
    /\ Len(oco_fg.gw) = 5

\* C28: list_active() of every manager returns exactly the records of its
\* registry whose status is 'active': the TWAP and Grid lists are the active
\* records of the registry at the call, and every entry the OCO list returns
\* carries the status 'active'.
C28_ListActiveExact ==
    [][/\ list_active_twap_orders =>
            twap_fg'.listed =
               {m \in TwapIx :
                   /\ \E id \in DOMAIN active_twap_orders : active_twap_orders[id] = m
                   /\ twap_order[m].status = "active"}
       /\ list_active_grid_orders =>
            grid_fg'.listed =
               {k \in GridIx : k \in active_grid_orders /\ grid_order[k].status = "active"}
       /\ (OcoStatusReturn /\ oco_fg'.ret = "list") =>
            \A e \in oco_fg'.listed : e.status = "active"]_vars

\* C29: status(id) and cancel(id) with an identifier that is not in the
\* registry return a failure value, make no Gateway call and leave the
\* registry and its records as they were, in each of the three managers.
C29_UnknownIdentifier ==
    [][/\ \A id \in OcoIx :
            (id \notin active_oco_orders /\ (get_oco_order_status(id) \/ CancelOcoCall(id)))
               => /\ oco_fg'.pc = "idle"
                  /\ oco_fg'.ret \in {"None", "False"}
                  /\ oco_fg'.gw = <<>>
                  /\ oco_gw' = oco_gw
                  /\ active_oco_orders' = active_oco_orders
                  /\ oco_order' = oco_order
       /\ \A id \in GridIx :
            (id \notin active_grid_orders /\ (get_grid_order_status(id) \/ cancel_grid_order(id)))
               => /\ grid_fg'.pc = "idle"
                  /\ grid_fg'.ret \in {"None", "False"}
                  /\ grid_fg'.gw = <<>>
                  /\ grid_gw' = grid_gw
                  /\ active_grid_orders' = active_grid_orders
                  /\ grid_order' = grid_order
       /\ \A id \in TwapIx :
            (id \notin DOMAIN active_twap_orders
                /\ (get_twap_order_status(id) \/ cancel_twap_order(id)))
               => /\ twap_fg'.pc = "idle"
                  /\ twap_fg'.ret \in {"None", "False"}
                  /\ active_twap_orders' = active_twap_orders
                  /\ twap_order' = twap_order
                  /\ twap_mon' = twap_mon]_vars

\* An identifier that was in the OCO registry and has been evicted is asked
\* for: the call has returned None.
C29_Witness ==
    /\ oco_calls = 1
    /\ oco_order[1].status # "none"
    /\ 1 \notin active_oco_orders
    /\ oco_fg.pc = "idle"
    /\ oco_fg.oco_id = 1
    /\ oco_fg.ret = "None"
    /\ oco_fg.entry = "none"
    /\ oco_fg.gw = <<>>

\* C30: once an OCO monitor has written a terminal status (rule a, b or c)
\* it is past its last Gateway call: it only writes completed_time and
\* stops, sending neither a status query nor a cancel.
C30_NoCallAfterTerminal ==
    [][\A k \in OcoIx :
          oco_mon[k].rule # "none" =>
             /\ oco_mon[k].pc \in {"set_time", "done"}
             /\ oco_mon'[k].pc \in {"set_time", "done"}
             /\ oco_gw'[k].mon_tp = oco_gw[k].mon_tp
             /\ oco_gw'[k].mon_sl = oco_gw[k].mon_sl
             /\ oco_gw'[k].mon_failed = oco_gw[k].mon_failed]_vars

\* A monitor that stopped after rule c, its one cancel refused.
C30_Witness ==
    \E k \in OcoIx :
        /\ oco_mon[k].pc = "done"
        /\ oco_mon[k].rule = "cancelled"
        /\ oco_order[k].status = "cancelled"
        /\ oco_gw[k].mon_tp + oco_gw[k].mon_sl = 1
        /\ oco_gw[k].mon_failed = 1

\* C31: every record of a registry whose status is 'active' has exactly one
\* monitor thread that was started for it and has not ended, and a monitor
\* is started only for a record that is in the registry.
C31_TwapBound(m, id, o) ==
    \/ twap_mon[m].pc = "start" /\ twap_order[m].twap_id = id
    \/ twap_mon[m].pc \in {"loop", "chunk", "finish", "set_time", "remove"}
          /\ twap_mon[m].twap_order = o

C31_OneMonitorPerActive ==
    /\ \A k \in active_oco_orders :
          oco_order[k].status = "active" => oco_mon[k].pc \notin {"none", "done"}
    /\ \A k \in active_grid_orders :
          grid_order[k].status = "active" => grid_mon[k].pc \notin {"none", "done"}
    /\ \A id \in DOMAIN active_twap_orders :
          twap_order[active_twap_orders[id]].status = "active" =>
             Cardinality({m \in TwapIx :
                             C31_TwapBound(m, id, active_twap_orders[id])}) = 1
    /\ \A k \in OcoIx : oco_mon[k].pc # "none" => oco_order[k].status # "none"
    /\ \A k \in GridIx : grid_mon[k].pc # "none" => grid_order[k].status # "none"
    /\ \A m \in TwapIx : twap_mon[m].pc # "none" => twap_order[m].status # "none"

\* C32: a status query that fails (reply None) leaves the record, its status
\* and its legs as they were and does not end the monitor.  OCO: the thread
\* goes on to its next query; a cycle in which a query failed fires a rule
\* only if the other leg is reported FILLED or CANCELED, and otherwise the
\* thread returns to the loop test without a cancel, from where an active
\* record is queried again.  Grid: the thread goes on with the next leg or
\* the next cycle, and every cycle of an active grid starts with the query
\* of its first 'active' leg.
C32_FailedQueryIgnored ==
    [][/\ \A k \in OcoIx :
            /\ (/\ oco_mon[k].pc = "query_tp"
                /\ oco_mon'[k].pc # "query_tp"
                /\ oco_mon'[k].tp_status = "None")
                  => /\ oco_mon'[k].pc = "query_sl"
                     /\ oco_order' = oco_order
                     /\ oco_legs' = oco_legs
                     /\ oco_gw' = oco_gw
            /\ (/\ oco_mon[k].pc = "query_sl"
                /\ oco_mon'[k].pc # "query_sl"
                /\ oco_mon'[k].sl_status = "None")
                  => /\ oco_mon'[k].pc = "evaluate"
                     /\ oco_order' = oco_order
                     /\ oco_legs' = oco_legs
                     /\ oco_gw' = oco_gw
            /\ (/\ oco_mon[k].pc = "evaluate"
                /\ oco_mon'[k] # oco_mon[k]
                /\ "None" \in {oco_mon[k].tp_status, oco_mon[k].sl_status}
                /\ {oco_mon[k].tp_status, oco_mon[k].sl_status} \subseteq {"None", "NEW"})
                  => /\ oco_mon'[k].pc = "loop"
                     /\ oco_order' = oco_order
                     /\ oco_legs' = oco_legs
                     /\ oco_gw' = oco_gw
            /\ (/\ oco_mon[k].pc = "loop"
                /\ oco_mon'[k] # oco_mon[k]
                /\ k \in active_oco_orders
                /\ oco_order[k].status = "active")
                  => oco_mon'[k].pc = "query_tp"
       /\ \A k \in GridIx :
            GridReplyWith(k, "None")
               => /\ grid_order' = grid_order
                  /\ grid_gw' = grid_gw
                  /\ grid_mon'[k].pc \in {"query", "loop"}
       /\ \A k \in GridIx :
            (/\ grid_mon[k].pc = "loop"
             /\ grid_mon'[k] # grid_mon[k]
             /\ k \in active_grid_orders
             /\ grid_order[k].status = "active"
             /\ \E j \in 1..Len(grid_order[k].orders) :
                   grid_order[k].orders[j].status = "active")
               => /\ grid_mon'[k].pc = "query"
                  /\ grid_order[k].orders[grid_mon'[k].i].status = "active"
                  /\ \A j \in 1..(grid_mon'[k].i - 1) :
                        grid_order[k].orders[j].status # "active"]_vars

\* An OCO cycle both of whose queries failed, about to be evaluated.
C32_Witness ==
    \E k \in OcoIx :
        /\ oco_mon[k].pc = "evaluate"
        /\ oco_mon[k].tp_status = "None"
        /\ oco_mon[k].sl_status = "None"
        /\ oco_order[k].status = "active"

\* C33: the leg list of a stored grid is append-only: no step shortens it or
\* changes the side, price or quantity of a leg already in it, at most one leg
\* is added in a step, and a leg is added only by the monitor's step in which
\* the place_order of a replacement returns, as a new 'active' last leg.
C33_AppendOnly ==
    [][\A k \in GridIx :
          grid_order[k].status # "none" =>
             LET old == grid_order[k].orders
                 new == grid_order'[k].orders
             IN  /\ Len(new) >= Len(old)
                 /\ \A j \in 1..Len(old) :
                       /\ new[j].side = old[j].side
                       /\ new[j].price = old[j].price
                       /\ new[j].quantity = old[j].quantity
                 /\ Len(new) > Len(old) =>
                       /\ Len(new) = Len(old) + 1
                       /\ grid_mon[k].pc = "place"
                       /\ grid_mon'[k].pc # "place"
                       /\ new[Len(new)].status = "active"
                       /\ \A j \in 1..Len(old) : new[j].status = old[j].status]_vars

\* A grid whose list has grown by a replacement and was then cancelled.
C33_Witness ==
    \E k \in GridIx :
        /\ grid_order[k].status = "cancelled"
        /\ Len(grid_order[k].orders) = grid_order[k].grid_count + 1
        /\ grid_order[k].orders[Len(grid_order[k].orders)].status = "cancelled"

\* C34: when the place_order of a replacement fails, no leg is added, every
\* leg keeps its status (the filled leg stays 'filled'), the grid's status is
\* not touched and the monitor goes on with its cycle.
C34_FailedReplacementFrame ==
    [][\A k \in GridIx :
          GridPlacedWith(k, FALSE) =>
             /\ Len(grid_order'[k].orders) = Len(grid_order[k].orders)
             /\ \A j \in 1..Len(grid_order[k].orders) :
                   grid_order'[k].orders[j].status = grid_order[k].orders[j].status
             /\ grid_order'[k].status = grid_order[k].status
             /\ grid_mon'[k].pc \in {"query", "loop"}
             /\ grid_gw' = grid_gw]_vars

\* A grid all of whose levels were placed, after the one replacement it sent
\* was refused: the list has not grown, the grid is active, the monitor runs.
C34_Witness ==
    \E k \in GridIx :
        /\ grid_order[k].status = "active"
        /\ grid_fg.ret = "placed"
        /\ \A n \in 1..Len(grid_fg.gw) : grid_fg.gw[n].ok
        /\ Len(grid_gw[k]) = 1
        /\ Len(grid_order[k].orders) = grid_order[k].grid_count
        /\ grid_order[k].orders[grid_gw[k][1].leg].status = "filled"
        /\ grid_mon[k].pc \in {"query", "loop"}

\* C35: a cancel_grid_order call on a grid that is already 'cancelled', has its
\* completed_time and has no 'active' leg left sends no cancel_order and leaves
\* the record (status, completed_time, legs) exactly as it was.
C35_CancelIdempotent ==
    [][\A k \in GridIx :
          (/\ grid_order[k].status = "cancelled"
           /\ grid_order[k].completed_time # NoTime
           /\ \A j \in 1..Len(grid_order[k].orders) :
                 grid_order[k].orders[j].status # "active"
           /\ grid_fg' # grid_fg
           /\ grid_fg'.grid_id = k
           /\ \/ grid_fg.pc = "idle" /\ grid_fg'.pc # "idle"
              \/ grid_fg.pc \in {"set_status", "set_time"})
             => /\ grid_fg'.pc # "cancel"
                /\ grid_order'[k] = grid_order[k]]_vars

\* C36: once cancel_grid_order has returned for a grid, none of its
\* cancel_order calls having been refused, the grid has no 'active' leg.
C36_NoActiveLegAfterCancel ==
    \A k \in GridIx :
        (/\ grid_fg.pc = "idle"
         /\ grid_fg.ret = "True"
         /\ grid_fg.grid_id = k
         /\ ~grid_fg.refused)
            => \A j \in 1..Len(grid_order[k].orders) :
                  grid_order[k].orders[j].status # "active"

\* C37: the OCO monitor writes its terminal status only after it has sent the
\* cancel of the sibling leg: a record read as 'completed_tp' has had a monitor
\* cancel of its stop-loss, one read as 'completed_sl' a monitor cancel of its
\* take-profit, and a monitor that wrote 'cancelled' has sent a cancel; the
\* step that writes the status sends nothing, and the monitor's next step
\* writes completed_time and ends the thread.
C37_StatusAfterCancel ==
    /\ [](\A k \in OcoIx :
            /\ oco_order[k].status = "completed_tp" => oco_gw[k].mon_sl >= 1
            /\ oco_order[k].status = "completed_sl" => oco_gw[k].mon_tp >= 1
            /\ oco_mon[k].rule = "cancelled" => oco_gw[k].mon_tp + oco_gw[k].mon_sl >= 1)
    /\ [][\A k \in OcoIx :
            /\ (oco_mon[k].rule = "none" /\ oco_mon'[k].rule # "none")
                  => /\ oco_mon[k].pc = "set_status"
                     /\ oco_mon'[k].pc = "set_time"
                     /\ oco_order'[k].status = oco_mon'[k].rule
                     /\ oco_gw'[k].mon_tp = oco_gw[k].mon_tp
                     /\ oco_gw'[k].mon_sl = oco_gw[k].mon_sl
            /\ (oco_mon[k].pc = "set_time" /\ oco_mon'[k] # oco_mon[k])
                  => /\ oco_mon'[k].pc = "done"
                     /\ oco_order'[k].completed_time # NoTime
                     /\ oco_order'[k].status = oco_order[k].status]_vars

\* A record completed by a stop-loss fill: the take-profit cancel was sent,
\* the status and then completed_time written, the thread ended.
C37_Witness ==
    \E k \in OcoIx :
        /\ oco_order[k].status = "completed_sl"
        /\ oco_order[k].completed_time # NoTime
        /\ oco_mon[k].pc = "done"
        /\ oco_mon[k].rule = "completed_sl"
        /\ oco_gw[k].mon_tp = 1
        /\ oco_gw[k].mon_sl = 0

\* C38: every TWAP execution thread terminates. A thread sends a slice's
\* market order only while it has attempted fewer slices than the
\* total_intervals of the record it executes; a started thread eventually
\* ends, whether its slices succeed, one fails or the record is cancelled;
\* an ended thread stays ended and attempts nothing more.
C38_TwapTerminates ==
    /\ [][\A m \in TwapIx :
            /\ (twap_mon'[m].pc = "chunk" /\ twap_mon[m].pc # "chunk")
                  => LET r == twap_order'[twap_mon'[m].twap_order]
                     IN  twap_mon'[m].i + 1 <=
                            Max(1, (r.duration_minutes * 60) \div r.interval_seconds)
            /\ twap_mon'[m].i # twap_mon[m].i
                  => /\ twap_mon[m].pc = "chunk"
                     /\ twap_mon'[m].i = twap_mon[m].i + 1
            /\ twap_mon[m].pc = "done" => twap_mon'[m] = twap_mon[m]]_vars
    /\ \A m \in TwapIx : (twap_mon[m].pc # "none") ~> (twap_mon[m].pc = "done")

\* A thread that ended after its record was cancelled between two slices: it
\* attempted at least one slice, none failed, and fewer than total_intervals.
C38_Witness ==
    \E m \in TwapIx :
        /\ twap_mon[m].pc = "done"
        /\ TwapRunning(m)
        /\ ~twap_mon[m].failed
        /\ twap_mon[m].i >= 1
        /\ twap_mon[m].i < TotalIntervals(TwapOf(m).duration_minutes,
                                          TwapOf(m).interval_seconds)

\* Replies that end an OCO composite.
C39_Final == {"FILLED", "CANCELED"}

\* Every take-profit (stop-loss) status query of monitor k taken in this step
\* is answered FILLED or CANCELED.
C39_TpReportedFinal(k) ==
    (oco_mon[k].pc = "query_tp" /\ oco_mon'[k].pc = "query_sl")
        => oco_mon'[k].tp_status \in C39_Final
C39_SlReportedFinal(k) ==
    (oco_mon[k].pc = "query_sl" /\ oco_mon'[k].pc = "evaluate")
        => oco_mon'[k].sl_status \in C39_Final

\* C39: if from some point on every status query of one leg of an OCO composite
\* is answered FILLED or CANCELED, an active composite eventually has a terminal
\* status and an ended monitor. And the status leaves 'active' only by a
\* monitor cycle in which a leg was reported FILLED or CANCELED or by a
\* foreground cancel with a successful leg cancel; a cycle of an active
\* composite with no such report goes back to the loop test, and the loop
\* test of an active composite starts the next poll.
C39_FinalReportEnds ==
    /\ \A k \in OcoIx :
          (<>[][C39_TpReportedFinal(k)]_vars \/ <>[][C39_SlReportedFinal(k)]_vars)
             => ((oco_order[k].status = "active")
                    ~> (oco_order[k].status \in Terminal /\ oco_mon[k].pc = "done"))
    /\ [][\A k \in OcoIx :
            /\ (oco_order[k].status = "active" /\ oco_order'[k].status # "active")
                  => \/ /\ oco_mon[k].pc = "set_status"
                        /\ \/ oco_mon[k].tp_status \in C39_Final
                           \/ oco_mon[k].sl_status \in C39_Final
                     \/ /\ oco_fg.pc = "set_status"
                        /\ oco_fg.oco_id = k
                        /\ oco_fg.tp_cancelled \/ oco_fg.sl_cancelled
            /\ (/\ oco_mon[k].pc = "evaluate"
                /\ oco_mon'[k] # oco_mon[k]
                /\ oco_mon[k].tp_status \notin C39_Final
                /\ oco_mon[k].sl_status \notin C39_Final)
                  => /\ oco_mon'[k].pc = "loop"
                     /\ oco_order'[k] = oco_order[k]
                     /\ oco_gw'[k] = oco_gw[k]
            /\ (/\ oco_mon[k].pc = "loop"
                /\ oco_mon'[k] # oco_mon[k]
                /\ oco_order[k].status = "active")
                  => oco_mon'[k].pc = "query_tp"]_vars

\* A composite ended by its monitor on a stop-loss reported CANCELED while the
\* take-profit was not reported FILLED or CANCELED, with no foreground cancel.
C39_Witness ==
    \E k \in OcoIx :
        /\ oco_order[k].status = "cancelled"
        /\ oco_mon[k].pc = "done"
        /\ oco_mon[k].rule = "cancelled"
        /\ oco_gw[k].mon_tp = 1
        /\ oco_gw[k].fg_tp = 0

====
